---- MODULE Spec2Model ----
(***************************************************************************)
(* Timetable aggregation engine of unibo_toolkit: date-range resolver,     *)
(* event decoder, response validator, endpoint fallback fetcher, fetch     *)
(* orchestrator and hierarchical collection.                               *)
(*                                                                         *)
(* Python values whose dynamic type matters are records tagged by "py".    *)
(***************************************************************************)
EXTENDS Integers, Sequences, FiniteSets, TLC

VARIABLES
    d_pc, d_ref, d_ext, d_now, d_out,
    f_pc, f_fn, f_url, f_ref, f_ext, f_now, f_window, f_k, f_reqs, f_hist, f_last, f_acc, f_ret,
    coll, c_adds, c_added, c_query, c_out,
    o_pc, o_url, o_years, o_curricula, o_tasks, o_results, o_i, o_total,
    t_pc, t_k, t_err, t_ret, t_n, t_done,
    p_pc, p_fn, p_args, p_ret,
    s_pc, s_self, s_ops, h_clients, h_sessions

\* the date-range resolver: its arguments, the clock and its result
dateVars == <<d_pc, d_ref, d_ext, d_now, d_out>>

\* one call of fetch_timetable or get_curriculum_timetable: its arguments and clock
\* (f_fn .. f_now), its locals (f_window, f_k), the requests it issued (f_reqs), the
\* class of each response it received (f_hist), the candidate whose payload it accepted
\* (f_acc, 0: none) and that payload (f_last), its result or exception
fetchVars == <<f_pc, f_fn, f_url, f_ref, f_ext, f_now, f_window, f_k, f_reqs, f_hist, f_last, f_acc,
               f_ret>>

\* a TimetableCollection (coll: its years dict), the number of timetables a caller
\* added to it, the arguments of the add just made (c_added, empty once the collection
\* is queried) and the last query made of it (c_query: its arguments, c_out: its result)
collVars == <<coll, c_adds, c_added, c_query, c_out>>

\* one call of get_timetables: its arguments (o_url, o_years, o_curricula), its locals
\* (o_tasks, o_results, the fold position o_i, o_total; its collection is coll), and per
\* task of the gather: its position (t_pc), the candidate it awaits (t_k, 0 outside the
\* loop), whether every request it made so far timed out or errored (t_err), its result
\* (t_ret), the number of records its fetch decoded (t_n); t_done lists the tasks in
\* completion order
orchVars == <<o_pc, o_url, o_years, o_curricula, o_tasks, o_results, o_i, o_total,
              t_pc, t_k, t_err, t_ret, t_n, t_done>>

\* one call of a function of the library on plain values: the function called, its
\* arguments, its return value or exception
callVars == <<p_pc, p_fn, p_args, p_ret>>

\* one use of a TimetableScraper as a context manager: its position (s_pc), the
\* scraper's fields (s_self), the calls it made on HTTP clients (s_ops), and the heap:
\* the HTTPClient objects (h_clients) and the aiohttp sessions they created (h_sessions)
scraperVars == <<s_pc, s_self, s_ops, h_clients, h_sessions>>

vars == <<dateVars, fetchVars, collVars, orchVars, callVars, scraperVars>>

-----------------------------------------------------------------------------
(* Python values *)

None == [py |-> "NoneType"]

IsNone(x) == x.py = "NoneType"

\* datetime(year, month, day, hour, minute, second)
datetime(y, mo, d, h, mi, s) ==
    [py |-> "datetime", year |-> y, month |-> mo, day |-> d,
     hour |-> h, minute |-> mi, second |-> s]

\* a "YYYY-MM-DD" string: the calendar date only
DateStr(y, mo, d) == [py |-> "str", year |-> y, month |-> mo, day |-> d]

-----------------------------------------------------------------------------
(* Bounds *)

MinYear == 2024
MaxYear == 2026
Months == 1..12
RefDays == {1, 15}

\* wall-clock instants of the events of a payload, and the longest payload
MaxTime == 2
MaxRecs == 2

\* years of study, and the number of timetables added to a collection
MaxStudyYear == 2
MaxAdds == 3

SeqUpTo(S, n) == UNION {[1..k -> S] : k \in 0..n}

RefDates == {datetime(y, mo, d, 0, 0, 0) : y \in MinYear..MaxYear, mo \in Months, d \in RefDays}

\* values datetime.now() may return
NowDates == {datetime(y, mo, 2, 12, 30, 0) : y \in {MaxYear}, mo \in {4, 11}}

-----------------------------------------------------------------------------
(* utils/date_utils.py *)

\* faulty variant: the term is taken to start in the reference date's own calendar year
get_academic_year_range_calendar_year(reference_date, extended, now) ==
    LET ref == IF IsNone(reference_date) THEN now ELSE reference_date
    IN  IF extended
        THEN <<datetime(ref.year - 1, 9, 1, 0, 0, 0), datetime(ref.year + 2, 7, 31, 23, 59, 59)>>
        ELSE <<datetime(ref.year, 9, 1, 0, 0, 0), datetime(ref.year + 1, 7, 31, 23, 59, 59)>>

get_academic_year_range(reference_date, extended, now) ==
    LET ref == IF IsNone(reference_date) THEN now ELSE reference_date
        current_month == ref.month
        current_year == ref.year
        start_year == IF current_month >= 9 THEN current_year ELSE current_year - 1
        end_year == IF current_month >= 9 THEN current_year + 1 ELSE current_year
    IN  IF extended
        THEN <<datetime(start_year - 1, 9, 1, 0, 0, 0), datetime(end_year + 1, 7, 31, 23, 59, 59)>>
        ELSE <<datetime(start_year, 9, 1, 0, 0, 0), datetime(end_year, 7, 31, 23, 59, 59)>>

format_date_for_api(date) == DateStr(date.year, date.month, date.day)

get_api_date_range(academic_year, reference_date, extended, now) ==
    LET r == get_academic_year_range(reference_date, extended, now)
    IN  <<format_date_for_api(r[1]), format_date_for_api(r[2])>>

\* an ISO-8601-like timestamp text: wall is the wall-clock instant it spells
\* (0: the text is no ISO timestamp), zone its suffix ("", "Z" or "+01:00")
Ts(wall, zone) == [py |-> "str", wall |-> wall, zone |-> zone]

parse_api_datetime_raises(date_str) ==
    \/ date_str.py # "str"
    \/ date_str.wall = 0

\* the zone suffix is dropped; the result is the naive wall-clock datetime
parse_api_datetime(date_str) ==
    LET stripped == IF date_str.zone = "+01:00" THEN Ts(date_str.wall, "")
                    ELSE IF date_str.zone = "Z" THEN Ts(date_str.wall, "")
                    ELSE date_str
    IN  stripped.wall

-----------------------------------------------------------------------------
(* Python objects of the fetch path *)

Str(s) == [py |-> "str", val |-> s]

PyList(items) == [py |-> "list", items |-> items]

PyTuple(items) == [py |-> "tuple", items |-> items]

Raise(exc) == [py |-> "raise", exc |-> exc]

Raised(x) == x.py = "raise"

\* len() of a list or tuple
PyLen(x) == Len(x.items)

\* dict.get(key) with default None, for text values
DictGetStr(d, key) == IF key \in DOMAIN d THEN Str(d[key]) ELSE None

-----------------------------------------------------------------------------
(* Python str: a text the code looks into is the sequence of its characters *)

Whitespace == {" "}

Digits == {"0", "1", "2", "3", "4", "5", "6", "7", "8", "9"}

UpperLetters ==
    {"A", "B", "C", "D", "E", "F", "G", "H", "I", "J", "K", "L", "M",
     "N", "O", "P", "Q", "R", "S", "T", "U", "V", "W", "X", "Y", "Z"}

LowerLetters ==
    {"a", "b", "c", "d", "e", "f", "g", "h", "i", "j", "k", "l", "m",
     "n", "o", "p", "q", "r", "s", "t", "u", "v", "w", "x", "y", "z"}

\* sub occurs in s at index i
OccursAt(s, i, sub) ==
    /\ i >= 1
    /\ i + Len(sub) - 1 <= Len(s)
    /\ SubSeq(s, i, i + Len(sub) - 1) = sub

\* `sub in s`
str_contains(s, sub) == \E i \in 1..(Len(s) + 1) : OccursAt(s, i, sub)

\* index of the first occurrence of sub in s, 0 when there is none
str_find(s, sub) ==
    IF str_contains(s, sub)
    THEN CHOOSE i \in 1..(Len(s) + 1) :
            OccursAt(s, i, sub) /\ \A j \in 1..(i - 1) : ~OccursAt(s, j, sub)
    ELSE 0

\* s.split(sep): the separator is searched left to right, each occurrence starting
\* after the end of the one before
RECURSIVE str_split(_, _)
str_split(s, sep) ==
    LET i == str_find(s, sep)
    IN  IF i = 0 THEN <<s>>
        ELSE <<SubSeq(s, 1, i - 1)>> \o str_split(SubSeq(s, i + Len(sep), Len(s)), sep)

\* s.strip(chars); s.strip() is str_strip(s, Whitespace)
RECURSIVE str_strip(_, _)
str_strip(s, chars) ==
    IF s = <<>> THEN s
    ELSE IF s[1] \in chars THEN str_strip(Tail(s), chars)
    ELSE IF s[Len(s)] \in chars THEN str_strip(SubSeq(s, 1, Len(s) - 1), chars)
    ELSE s

\* the lowercase letter of each uppercase letter
LowerOf ==
    ("A" :> "a") @@ ("B" :> "b") @@ ("C" :> "c") @@ ("D" :> "d") @@ ("E" :> "e") @@ ("F" :> "f")
    @@ ("G" :> "g") @@ ("H" :> "h") @@ ("I" :> "i") @@ ("J" :> "j") @@ ("K" :> "k") @@ ("L" :> "l")
    @@ ("M" :> "m") @@ ("N" :> "n") @@ ("O" :> "o") @@ ("P" :> "p") @@ ("Q" :> "q") @@ ("R" :> "r")
    @@ ("S" :> "s") @@ ("T" :> "t") @@ ("U" :> "u") @@ ("V" :> "v") @@ ("W" :> "w") @@ ("X" :> "x")
    @@ ("Y" :> "y") @@ ("Z" :> "z")

\* faulty variant: the text is left as it is
str_lower_unchanged(s) == s

\* s.lower()
str_lower(s) == [i \in 1..Len(s) |-> IF s[i] \in UpperLetters THEN LowerOf[s[i]] ELSE s[i]]

\* a regular expression without repetition: its alternatives in order of preference,
\* each a sequence of character classes
MatchesAt(s, i, alt) ==
    /\ i + Len(alt) - 1 <= Len(s)
    /\ \A j \in 1..Len(alt) : s[i + j - 1] \in alt[j]

\* re.search(pattern, s): the text of the leftmost match, None when nothing matches
re_search(pattern, s) ==
    LET hits == {i \in 1..Len(s) : \E a \in 1..Len(pattern) : MatchesAt(s, i, pattern[a])}
    IN  IF hits = {} THEN None
        ELSE LET i == CHOOSE i \in hits : \A j \in hits : i <= j
                 a == CHOOSE a \in 1..Len(pattern) :
                        /\ MatchesAt(s, i, pattern[a])
                        /\ \A b \in 1..(a - 1) : ~MatchesAt(s, i, pattern[b])
             IN  [py |-> "Match", group0 |-> SubSeq(s, i, i + Len(pattern[a]) - 1)]

-----------------------------------------------------------------------------
(* models/timetable.py: TimetableEvent.extract_group_id *)

\* the longest suffix taken for a group identifier
MaxSuffixLen == 10

\* faulty variant: the class without re.IGNORECASE
AlnumClassCaseSensitive == UpperLetters \cup Digits

\* r'[A-Z0-9]' under re.IGNORECASE
AlnumClass == UpperLetters \cup LowerLetters \cup Digits

\* r'\(CL\.([A-Z])\)', r'\(([A-Z])\)', r'\(G\.([A-Z])\)', r'\(([A-Z]{2,3})\)'
title_patterns ==
    << << <<{"("}, {"C"}, {"L"}, {"."}, UpperLetters, {")"}>> >>,
       << <<{"("}, UpperLetters, {")"}>> >>,
       << <<{"("}, {"G"}, {"."}, UpperLetters, {")"}>> >>,
       << <<{"("}, UpperLetters, UpperLetters, UpperLetters, {")"}>>,
          <<{"("}, UpperLetters, UpperLetters, {")"}>> >> >>

\* faulty variant: of the matches of all patterns the leftmost in the title is taken
extract_from_title_leftmost(title) ==
    LET all == << title_patterns[1] \o title_patterns[2] \o title_patterns[3] \o title_patterns[4] >>
    IN  IF IsNone(re_search(all[1], title)) THEN None
        ELSE Str(str_strip(re_search(all[1], title).group0, {"(", ")"}))

\* method 2: the first pattern, in list order, that matches somewhere in the title
extract_from_title(title) ==
    LET matching == {k \in 1..Len(title_patterns) : ~IsNone(re_search(title_patterns[k], title))}
    IN  IF matching = {} THEN None
        ELSE LET k == CHOOSE k \in matching : \A l \in matching : k <= l
             IN  Str(str_strip(re_search(title_patterns[k], title).group0, {"(", ")"}))

\* returns None or the identifier as a str
extract_group_id(cod_sdoppiamento, title) ==
    IF str_contains(cod_sdoppiamento, <<"-", "-">>)
    THEN LET parts == str_split(cod_sdoppiamento, <<"-", "-">>)
             suffix == str_strip(parts[Len(parts)], Whitespace)
             module_base == str_split(cod_sdoppiamento, <<"_">>)[1]
         IN  IF suffix = module_base THEN None
             ELSE IF Len(suffix) > MaxSuffixLen \/ suffix = <<>> THEN None
             ELSE IF ~\E i \in 1..Len(suffix) : suffix[i] \in AlnumClass THEN None
             ELSE Str(suffix)
    ELSE extract_from_title(title)

\* TimetableEvent.__post_init__: the identifier is extracted when none was given and
\* the raw code is neither None nor empty (a raw code and the title that goes with it
\* are character sequences)
TimetableEvent_post_init(event) ==
    IF IsNone(event.group_id) /\ ~IsNone(event.cod_sdoppiamento) /\ event.cod_sdoppiamento.val # <<>>
    THEN [event EXCEPT !.group_id = extract_group_id(event.cod_sdoppiamento.val, event.title)]
    ELSE event

-----------------------------------------------------------------------------
(* utils/timetable_parser.py *)

parse_event(event_data) ==
    IF event_data.py # "dict" THEN Raise("TypeError")
    ELSE IF "start" \notin DOMAIN event_data THEN Raise("KeyError")
    ELSE IF parse_api_datetime_raises(event_data.start) THEN Raise("ValueError")
    ELSE IF "end" \notin DOMAIN event_data THEN Raise("KeyError")
    ELSE IF parse_api_datetime_raises(event_data.end) THEN Raise("ValueError")
    ELSE TimetableEvent_post_init(
         [py |-> "TimetableEvent",
          title |-> IF "title" \in DOMAIN event_data THEN event_data.title ELSE "",
          start |-> parse_api_datetime(event_data.start),
          end |-> parse_api_datetime(event_data.end),
          professor |-> DictGetStr(event_data, "docente"),
          module_code |-> DictGetStr(event_data, "cod_modulo"),
          teaching_period |-> DictGetStr(event_data, "periodo"),
          is_remote |-> ("teams" \in DOMAIN event_data /\ event_data.teams # ""),
          teams_link |-> IF "teams" \in DOMAIN event_data /\ event_data.teams # ""
                         THEN Str(event_data.teams) ELSE None,
          notes |-> DictGetStr(event_data, "note"),
          group_id |-> None,
          cod_sdoppiamento |-> DictGetStr(event_data, "cod_sdoppiamento")])

\* list.sort(key=lambda e: e.start): a stable sort, here by insertion
RECURSIVE InsertByStart(_, _)
InsertByStart(sorted, e) ==
    IF sorted = <<>> THEN <<e>>
    ELSE IF sorted[Len(sorted)].start <= e.start THEN Append(sorted, e)
    ELSE Append(InsertByStart(SubSeq(sorted, 1, Len(sorted) - 1), e), sorted[Len(sorted)])

RECURSIVE SortByStart(_)
SortByStart(events) ==
    IF events = <<>> THEN <<>>
    ELSE InsertByStart(SortByStart(SubSeq(events, 1, Len(events) - 1)), events[Len(events)])

\* faulty variant: the notes are hashed too
HashFieldsWithNotes(event) ==
    [title |-> event.title, start |-> event.start, end |-> event.end,
     professor |-> event.professor, module_code |-> event.module_code,
     teaching_period |-> event.teaching_period, is_remote |-> event.is_remote,
     notes |-> event.notes]

\* the fields collected for hashing, each decoded event in payload order
HashFields(event) ==
    [title |-> event.title, start |-> event.start, end |-> event.end,
     professor |-> event.professor, module_code |-> event.module_code,
     teaching_period |-> event.teaching_period, is_remote |-> event.is_remote]

\* sha256(json.dumps(hash_input, sort_keys=True)).hexdigest()[:16], kept symbolic:
\* the digest of a serialization is named by the serialized value
ContentHash(hash_input) ==
    IF hash_input = <<>> THEN Str("")
    ELSE [py |-> "str", sha256 |-> hash_input]

\* returns the pair (events sorted by start, content_hash)
parse_events(events_data) ==
    LET n == Len(events_data)
        decoded == [i \in 1..n |-> parse_event(events_data[i])]
        bad == {i \in 1..n : Raised(decoded[i])}
    IN  IF bad # {}
        THEN decoded[CHOOSE i \in bad : \A j \in bad : i <= j]
        ELSE PyTuple(<<PyList(SortByStart(decoded)),
                       ContentHash([i \in 1..n |-> HashFields(decoded[i])])>>)

required_fields == <<"title", "start", "end">>

\* the characters of the required field names
FieldText ==
    [title |-> <<"t", "i", "t", "l", "e">>, start |-> <<"s", "t", "a", "r", "t">>,
     end |-> <<"e", "n", "d">>]

\* `field in first_event`: a key of a dict, an item of a list, a substring of a str
FieldIn(field, first_event) ==
    CASE first_event.py = "dict" -> field \in DOMAIN first_event
      [] first_event.py = "list" ->
            \E i \in 1..Len(first_event.items) :
                first_event.items[i].py = "str" /\ first_event.items[i].val = FieldText[field]
      [] first_event.py = "str" -> str_contains(first_event.val, FieldText[field])
      [] OTHER -> FALSE

\* `field in first_event` raises TypeError on a number, a boolean or null
validate_response_raises(response_data) ==
    /\ response_data.py = "list"
    /\ response_data.items # <<>>
    /\ response_data.items[1].py \notin {"dict", "list", "str"}

validate_response(response_data) ==
    IF response_data.py # "list" THEN FALSE
    ELSE IF response_data.items = <<>> THEN TRUE
    ELSE LET first_event == response_data.items[1]
         IN  \A i \in 1..Len(required_fields) : FieldIn(required_fields[i], first_event)

-----------------------------------------------------------------------------
(* models/timetable.py, models/curriculum.py *)

Curriculum(code, label) == [py |-> "Curriculum", code |-> code, label |-> label, selected |-> FALSE]

\* a dataclass without __post_init__: events is stored as passed
CurriculumTimetable(curriculum, events) ==
    [py |-> "CurriculumTimetable", curriculum |-> curriculum, events |-> events]

\* CurriculumTimetable.add_event: self.events.append(event), which a tuple does not have
CurriculumTimetable_add_event(self, event) ==
    IF self.events.py # "list" THEN Raise("AttributeError")
    ELSE [self EXCEPT !.events = PyList(Append(@.items, event))]

\* Timetable.__post_init__: a non-empty events is sorted in place by list.sort,
\* which a tuple does not have
Timetable(course_id, course_title, academic_year, start_date, end_date, events, has_timetable, fetch_successful, endpoint_used) ==
    IF PyLen(events) > 0 /\ events.py # "list" THEN Raise("AttributeError")
    ELSE IF PyLen(events) > 0 /\ \E i \in 1..PyLen(events) : events.items[i].py # "TimetableEvent"
    THEN Raise("AttributeError")
    ELSE [py |-> "Timetable", course_id |-> course_id, course_title |-> course_title,
          academic_year |-> academic_year, start_date |-> start_date, end_date |-> end_date,
          events |-> IF PyLen(events) > 0 THEN PyList(SortByStart(events.items)) ELSE events,
          has_timetable |-> has_timetable, fetch_successful |-> fetch_successful,
          endpoint_used |-> endpoint_used]

\* a Python dict: its entries in insertion order; assigning an existing key keeps
\* the key's position
DictHas(d, k) == \E i \in 1..Len(d) : d[i].key = k

DictGet(d, k) == d[CHOOSE i \in 1..Len(d) : d[i].key = k].val

DictSet(d, k, v) ==
    IF DictHas(d, k)
    THEN [i \in 1..Len(d) |-> IF d[i].key = k THEN [key |-> k, val |-> v] ELSE d[i]]
    ELSE Append(d, [key |-> k, val |-> v])

DictKeys(d) == {d[i].key : i \in 1..Len(d)}

PyInt(n) == [py |-> "int", val |-> n]

AcademicYearTimetable(year) == [py |-> "AcademicYearTimetable", year |-> year, curricula |-> <<>>]

\* faulty variant: a code the year already holds keeps its timetable
year_add_curriculum_timetable_keep_first(year_tt, curriculum_timetable) ==
    IF DictHas(year_tt.curricula, curriculum_timetable.curriculum.code) THEN year_tt
    ELSE [year_tt EXCEPT !.curricula = DictSet(@, curriculum_timetable.curriculum.code, curriculum_timetable)]

\* AcademicYearTimetable.add_curriculum_timetable
year_add_curriculum_timetable(year_tt, curriculum_timetable) ==
    [year_tt EXCEPT !.curricula = DictSet(@, curriculum_timetable.curriculum.code, curriculum_timetable)]

\* events.extend(...) over the curricula of the year, in dict order
RECURSIVE ExtendAll(_, _)
ExtendAll(events, lists) ==
    IF lists = <<>> THEN events
    ELSE ExtendAll(events \o lists[1].items, SubSeq(lists, 2, Len(lists)))

\* faulty variant: only the first curriculum of the year contributes its events
year_get_all_events_first_only(year_tt) ==
    IF year_tt.curricula = <<>> THEN PyList(<<>>)
    ELSE PyList(year_tt.curricula[1].val.events.items)

year_get_all_events(year_tt) ==
    PyList(ExtendAll(<<>>, [i \in 1..Len(year_tt.curricula) |-> year_tt.curricula[i].val.events]))

\* faulty variant: the year is created anew on every add, dropping its earlier curricula
add_curriculum_timetable_fresh_year(years, year, curriculum_timetable) ==
    DictSet(years, year,
            year_add_curriculum_timetable(AcademicYearTimetable(year), curriculum_timetable))

\* TimetableCollection.get_or_create_year followed by the year's add_curriculum_timetable
add_curriculum_timetable(years, year, curriculum_timetable) ==
    LET created == IF DictHas(years, year) THEN years
                   ELSE DictSet(years, year, AcademicYearTimetable(year))
    IN  DictSet(created, year,
                year_add_curriculum_timetable(DictGet(created, year), curriculum_timetable))

\* TimetableCollection.get_all_events(year, curriculum_code); an argument is None or,
\* for year, PyInt(n) and, for curriculum_code, Str(code)
get_all_events(years, year, curriculum_code) ==
    IF ~IsNone(year) /\ ~IsNone(curriculum_code)
    THEN IF DictHas(years, year.val) /\ DictHas(DictGet(years, year.val).curricula, curriculum_code.val)
         THEN DictGet(DictGet(years, year.val).curricula, curriculum_code.val).events
         ELSE PyList(<<>>)
    ELSE IF ~IsNone(year)
    THEN IF DictHas(years, year.val) THEN year_get_all_events(DictGet(years, year.val))
         ELSE PyList(<<>>)
    ELSE IF ~IsNone(curriculum_code)
    THEN PyList(ExtendAll(<<>>,
            LET having == SelectSeq(years, LAMBDA e : DictHas(e.val.curricula, curriculum_code.val))
            IN  [i \in 1..Len(having) |-> DictGet(having[i].val.curricula, curriculum_code.val).events]))
    ELSE PyList(ExtendAll(<<>>, [i \in 1..Len(years) |-> year_get_all_events(years[i].val)]))

\* TimetableCollection.__len__
collection_len(years) == PyLen(get_all_events(years, None, None))

-----------------------------------------------------------------------------
(* utils/timetable_filters.py, Timetable.split_by_group *)

\* a datetime given as a bound: the wall-clock instant, as the start of an event
Instant(t) == [py |-> "datetime", wall |-> t]

\* truth value of an Optional[str]
Truthy(x) == ~IsNone(x) /\ x.val # <<>>

\* `x in xs` for a list xs
ListHas(xs, x) == \E i \in 1..Len(xs) : xs[i] = x

\* faulty variant: the start bound is applied to the list given, not to the list
\* filtered so far
filter_events_from_input(events, group_id, subject, professor, start_date, end_date, only_remote, only_in_person) ==
    LET by_group ==
            IF IsNone(group_id) THEN events
            ELSE LET group_ids == IF group_id.py = "str" THEN <<group_id>> ELSE group_id.items
                 IN  SelectSeq(events, LAMBDA e : ListHas(group_ids, e.group_id))
        from_start ==
            IF IsNone(start_date) THEN by_group
            ELSE SelectSeq(events, LAMBDA e : e.start >= start_date.wall)
    IN  IF IsNone(end_date) THEN from_start
        ELSE SelectSeq(from_start, LAMBDA e : e.start <= end_date.wall)

\* events is the content of the list given; group_id is None, a str or a list, subject
\* and professor None or a str, start_date and end_date None or an Instant
filter_events(events, group_id, subject, professor, start_date, end_date, only_remote, only_in_person) ==
    LET by_group ==
            IF IsNone(group_id) THEN events
            ELSE LET group_ids == IF group_id.py = "str" THEN <<group_id>> ELSE group_id.items
                 IN  SelectSeq(events, LAMBDA e : ListHas(group_ids, e.group_id))
        by_subject ==
            IF IsNone(subject) THEN by_group
            ELSE LET subject_lower == str_lower(subject.val)
                 IN  SelectSeq(by_group, LAMBDA e : str_contains(str_lower(e.title), subject_lower))
        by_professor ==
            IF IsNone(professor) THEN by_subject
            ELSE LET professor_lower == str_lower(professor.val)
                 IN  SelectSeq(by_subject, LAMBDA e :
                        Truthy(e.professor) /\ str_contains(str_lower(e.professor.val), professor_lower))
        from_start ==
            IF IsNone(start_date) THEN by_professor
            ELSE SelectSeq(by_professor, LAMBDA e : e.start >= start_date.wall)
        to_end ==
            IF IsNone(end_date) THEN from_start
            ELSE SelectSeq(from_start, LAMBDA e : e.start <= end_date.wall)
        remote == IF only_remote THEN SelectSeq(to_end, LAMBDA e : e.is_remote) ELSE to_end
    IN  IF only_in_person THEN SelectSeq(remote, LAMBDA e : ~e.is_remote) ELSE remote

\* the key of the bucket of events without group
common == <<"c", "o", "m", "m", "o", "n">>

\* grouped[key].append(event), the list created on the key's first event
BucketAppend(grouped, key, event) ==
    IF DictHas(grouped, key) THEN DictSet(grouped, key, Append(DictGet(grouped, key), event))
    ELSE DictSet(grouped, key, <<event>>)

\* the dict of group_events_by_group after the loop over events
RECURSIVE group_events_by_group(_)
group_events_by_group(events) ==
    IF events = <<>> THEN <<>>
    ELSE LET event == events[Len(events)]
             key == IF Truthy(event.group_id) THEN event.group_id.val ELSE common
         IN  BucketAppend(group_events_by_group(SubSeq(events, 1, Len(events) - 1)), key, event)

\* Timetable.split_by_group, of the events of the timetable
RECURSIVE split_by_group(_)
split_by_group(events) ==
    IF events = <<>> THEN <<>>
    ELSE LET event == events[Len(events)]
             result == split_by_group(SubSeq(events, 1, Len(events) - 1))
         IN  IF Truthy(event.group_id)
             THEN BucketAppend(result, event.group_id.val, event)
             ELSE BucketAppend(result, common, event)

-----------------------------------------------------------------------------
(* scrapers/timetable.py: the endpoint fallback fetcher *)

TIMETABLE_ENDPOINTS == <<"/orario-lezioni/@@orario_reale_json", "/timetable/@@orario_reale_json">>

\* what `await http_client.get(url, params)` yields: the body text, or an exception
\* (network error, timeout, non-2xx status)
Body(parses, json) == [py |-> "str", parses |-> parses, json |-> json]

json_loads(body) == IF body.parses THEN body.json ELSE Raise("JSONDecodeError")

\* the dict json.loads makes of a JSON object given as its (key, value) members in the
\* order of the text: of members with the same key the last one counts
json_object(members) ==
    [k \in {members[i][1] : i \in 1..Len(members)} \cup {"py"} |->
        IF k = "py" THEN "dict"
        ELSE members[CHOOSE i \in 1..Len(members) :
                        /\ members[i][1] = k
                        /\ \A j \in (i + 1)..Len(members) : members[j][1] # k][2]]

\* curriculum is None or a Curriculum
_build_timetable_url(course_site_url, endpoint, academic_year, start_date, end_date, curriculum) ==
    [url |-> <<course_site_url, endpoint>>,
     params |-> [anno |-> academic_year,
                 curricula |-> IF IsNone(curriculum) THEN "" ELSE curriculum.code,
                 start |-> start_date, end |-> end_date]]

\* datetime.fromisoformat of a "YYYY-MM-DD" string
fromisoformat(date_str) == datetime(date_str.year, date_str.month, date_str.day, 0, 0, 0)

Continue == [py |-> "continue"]

\* the try block of fetch_timetable once get has returned the body text: the
\* Timetable it returns, Continue when the payload is invalid, or the exception raised
fetch_timetable_body(resp, endpoint, course_id, course_title, academic_year, window) ==
    LET json_data == json_loads(resp)
    IN  IF Raised(json_data) THEN json_data
        ELSE IF validate_response_raises(json_data) THEN Raise("TypeError")
        ELSE IF ~validate_response(json_data) THEN Continue
        ELSE LET events == parse_events(json_data.items)
             IN  IF Raised(events) THEN events
                 ELSE Timetable(course_id, course_title, academic_year,
                                fromisoformat(window[1]), fromisoformat(window[2]),
                                events, PyLen(events) > 0, TRUE, Str(endpoint))

\* fetch_timetable_try without its `except Exception`: an exception leaves the loop
fetch_timetable_try_propagating(resp, endpoint, course_id, course_title, academic_year, window) ==
    IF Raised(resp) THEN resp
    ELSE fetch_timetable_body(resp, endpoint, course_id, course_title, academic_year, window)

\* one candidate of fetch_timetable: the Timetable it returns, or Continue when the
\* candidate is given up (invalid response or any exception)
fetch_timetable_try(resp, endpoint, course_id, course_title, academic_year, window) ==
    IF Raised(resp) THEN Continue
    ELSE LET r == fetch_timetable_body(resp, endpoint, course_id, course_title, academic_year, window)
         IN  IF Raised(r) THEN Continue ELSE r

fetch_timetable_failed(course_id, course_title, academic_year, window) ==
    Timetable(course_id, course_title, academic_year,
              fromisoformat(window[1]), fromisoformat(window[2]),
              PyList(<<>>), FALSE, FALSE, None)

get_curriculum_timetable_body(resp, curriculum) ==
    LET json_data == json_loads(resp)
    IN  IF Raised(json_data) THEN json_data
        ELSE IF validate_response_raises(json_data) THEN Raise("TypeError")
        ELSE IF ~validate_response(json_data) THEN Continue
        ELSE LET events == parse_events(json_data.items)
             IN  IF Raised(events) THEN events
                 ELSE CurriculumTimetable(curriculum, events)

\* one candidate of get_curriculum_timetable
get_curriculum_timetable_try(resp, curriculum) ==
    IF Raised(resp) THEN Continue
    ELSE LET r == get_curriculum_timetable_body(resp, curriculum)
         IN  IF Raised(r) THEN Continue ELSE r

\* faulty variant: no timetable is made for a curriculum whose candidates all failed
get_curriculum_timetable_failed_none(curriculum) == None

\* the return after the loop: all endpoints failed
get_curriculum_timetable_failed(curriculum) == CurriculumTimetable(curriculum, PyList(<<>>))

\* the call sites pass reference_date as the first positional argument of
\* get_api_date_range(academic_year, reference_date=None, extended=True)
FetchDateRange(reference_date, extended_range, now) ==
    get_api_date_range(reference_date, None, extended_range, now)

-----------------------------------------------------------------------------
(* Components at rest: each specification exercises one part and leaves the others idle *)

\* no fetch in the system
FetchIdle ==
    /\ f_pc = "idle" /\ f_fn = "" /\ f_url = "" /\ f_ref = None /\ f_ext = FALSE
    /\ f_now = None /\ f_window = <<>> /\ f_k = 0 /\ f_reqs = <<>> /\ f_hist = <<>>
    /\ f_last = None /\ f_acc = 0 /\ f_ret = None

\* the resolver is not in use
DateIdle ==
    /\ d_pc = "idle" /\ d_ref = None /\ d_ext = FALSE /\ d_now = None /\ d_out = <<>>

\* no collection in use
CollIdle == coll = <<>> /\ c_adds = 0 /\ c_added = <<>> /\ c_query = <<>> /\ c_out = None

\* no library function is being called
CallIdle == p_pc = "idle" /\ p_fn = "" /\ p_args = <<>> /\ p_ret = None

\* no scraper in use
ScraperIdle ==
    /\ s_pc = "idle" /\ s_self = None /\ s_ops = <<>> /\ h_clients = <<>> /\ h_sessions = <<>>

\* no get_timetables call
OrchIdle ==
    /\ o_pc = "idle" /\ o_url = "" /\ o_years = <<>> /\ o_curricula = <<>> /\ o_tasks = <<>>
    /\ o_results = <<>> /\ o_i = 0 /\ o_total = 0
    /\ t_pc = <<>> /\ t_k = <<>> /\ t_err = <<>> /\ t_ret = <<>> /\ t_n = <<>> /\ t_done = <<>>

-----------------------------------------------------------------------------
(* One fetch against an arbitrary upstream *)

\* raw records an upstream may send: well-formed ones, one with instructor and
\* remote link, one without start, one without title, one with an unparsable
\* start, one that ends before it starts, and an element that is no object
FetchRecords ==
    {[py |-> "dict", title |-> "T", start |-> Ts(t, "+01:00"), end |-> Ts(t + 1, "+01:00")] :
        t \in 1..MaxTime}
    \cup {[py |-> "dict", title |-> "U", start |-> Ts(1, "Z"), end |-> Ts(2, "Z"),
           docente |-> "Rossi", teams |-> "https://teams.example/1"],
          [py |-> "dict", title |-> "T", end |-> Ts(2, "")],
          [py |-> "dict", start |-> Ts(1, ""), end |-> Ts(2, "")],
          [py |-> "dict", title |-> "T", start |-> Ts(0, ""), end |-> Ts(2, "")],
          [py |-> "dict", title |-> "T", start |-> Ts(2, ""), end |-> Ts(1, "")],
          [py |-> "int"]}

FetchResponses ==
    {Raise("ClientError"), Raise("TimeoutError"), Body(FALSE, None), Body(TRUE, [py |-> "dict"])}
    \cup {Body(TRUE, PyList(recs)) : recs \in SeqUpTo(FetchRecords, MaxRecs)}

\* how a response fares: get raised, the body is no JSON, the payload fails
\* validate_response, or it passes it
ResponseClass(resp) ==
    IF Raised(resp) THEN "transport"
    ELSE IF Raised(json_loads(resp)) THEN "unparsable"
    ELSE IF validate_response_raises(json_loads(resp)) \/ ~validate_response(json_loads(resp))
    THEN "invalid_shape"
    ELSE "valid_array"

FetchArgs ==
    [course_id |-> 8009, course_title |-> "Informatica", academic_year |-> 1,
     curriculum |-> Curriculum("B69-000", "Advanced Track")]

CourseSiteUrls == {"", "https://corsi.unibo.it/laurea/informatica"}

FetchRefDates == {None} \cup {datetime(MinYear, mo, 15, 0, 0, 0) : mo \in {2, 10}}

InitFetch ==
    /\ ScraperIdle
    /\ CallIdle
    /\ DateIdle
    /\ CollIdle
    /\ OrchIdle
    /\ f_pc = "call"
    /\ f_fn \in {"fetch_timetable", "get_curriculum_timetable"}
    /\ f_url \in CourseSiteUrls
    /\ f_ref \in FetchRefDates
    /\ f_ext \in BOOLEAN
    /\ f_now \in NowDates
    /\ f_window = <<>>
    /\ f_k = 0
    /\ f_reqs = <<>>
    /\ f_hist = <<>>
    /\ f_last = None
    /\ f_acc = 0
    /\ f_ret = None

\* faulty variant: the course URL is not checked
FetchEnterUnchecked(curriculum) ==
    /\ f_pc = "call"
    /\ LET w == FetchDateRange(f_ref, f_ext, f_now)
       IN  /\ f_window' = w
           /\ f_k' = 1
           /\ f_reqs' = <<_build_timetable_url(f_url, TIMETABLE_ENDPOINTS[1],
                                               FetchArgs.academic_year, w[1], w[2], curriculum)>>
           /\ f_pc' = "await"
           /\ f_ret' = f_ret
    /\ UNCHANGED <<f_fn, f_url, f_ref, f_ext, f_now, f_hist, f_last, f_acc>>

\* entry of a fetch up to its first await: the empty-URL check, the date window, the
\* first request
FetchEnter(curriculum) ==
    /\ f_pc = "call"
    /\ IF f_url = ""
       THEN /\ f_pc' = "raised"
            /\ f_ret' = Raise("ValueError")
            /\ UNCHANGED <<f_window, f_k, f_reqs>>
       ELSE LET w == FetchDateRange(f_ref, f_ext, f_now)
            IN  /\ f_window' = w
                /\ f_k' = 1
                /\ f_reqs' = <<_build_timetable_url(f_url, TIMETABLE_ENDPOINTS[1],
                                                    FetchArgs.academic_year, w[1], w[2], curriculum)>>
                /\ f_pc' = "await"
                /\ f_ret' = f_ret
    /\ UNCHANGED <<f_fn, f_url, f_ref, f_ext, f_now, f_hist, f_last, f_acc>>

\* faulty variant: after a candidate's payload is accepted the next candidate is
\* requested all the same
FetchResumeRequestingOn(resp, r, failed, curriculum) ==
    /\ f_hist' = Append(f_hist, ResponseClass(resp))
    /\ f_acc' = IF ~Raised(r) /\ r.py # "continue" THEN f_k ELSE f_acc
    /\ f_last' = IF ~Raised(r) /\ r.py # "continue" THEN json_loads(resp) ELSE f_last
    /\ IF Raised(r)
       THEN f_pc' = "raised" /\ f_ret' = r /\ UNCHANGED <<f_k, f_reqs>>
       ELSE IF f_k < Len(TIMETABLE_ENDPOINTS)
       THEN /\ f_k' = f_k + 1
            /\ f_reqs' = Append(f_reqs,
                    _build_timetable_url(f_url, TIMETABLE_ENDPOINTS[f_k + 1],
                                         FetchArgs.academic_year, f_window[1], f_window[2], curriculum))
            /\ f_ret' = IF r.py # "continue" THEN r ELSE f_ret
            /\ UNCHANGED f_pc
       ELSE /\ f_pc' = "returned"
            /\ f_ret' = IF r.py # "continue" THEN r ELSE IF f_acc > 0 THEN f_ret ELSE failed
            /\ UNCHANGED <<f_k, f_reqs>>
    /\ UNCHANGED <<f_fn, f_url, f_ref, f_ext, f_now, f_window>>

\* resumption of a fetch with the response of candidate f_k, up to the next await or
\* the return: r is what the try block made of it, failed the all-failed result
FetchResume(resp, r, failed, curriculum) ==
    /\ f_hist' = Append(f_hist, ResponseClass(resp))
    /\ f_acc' = IF ~Raised(r) /\ r.py # "continue" THEN f_k ELSE f_acc
    /\ f_last' = IF ~Raised(r) /\ r.py # "continue" THEN json_loads(resp) ELSE f_last
    /\ IF Raised(r)
       THEN f_pc' = "raised" /\ f_ret' = r /\ UNCHANGED <<f_k, f_reqs>>
       ELSE IF r.py # "continue"
       THEN f_pc' = "returned" /\ f_ret' = r /\ UNCHANGED <<f_k, f_reqs>>
       ELSE IF f_k < Len(TIMETABLE_ENDPOINTS)
       THEN /\ f_k' = f_k + 1
            /\ f_reqs' = Append(f_reqs,
                    _build_timetable_url(f_url, TIMETABLE_ENDPOINTS[f_k + 1],
                                         FetchArgs.academic_year, f_window[1], f_window[2], curriculum))
            /\ UNCHANGED <<f_pc, f_ret>>
       ELSE f_pc' = "returned" /\ f_ret' = failed /\ UNCHANGED <<f_k, f_reqs>>
    /\ UNCHANGED <<f_fn, f_url, f_ref, f_ext, f_now, f_window>>

FetchTimetableCall ==
    /\ f_fn = "fetch_timetable"
    /\ FetchEnter(None)
    /\ UNCHANGED <<dateVars, collVars, orchVars, callVars, scraperVars>>

FetchTimetableRespond ==
    /\ f_fn = "fetch_timetable"
    /\ f_pc = "await"
    /\ \E resp \in FetchResponses :
        FetchResume(resp,
            fetch_timetable_try(resp, TIMETABLE_ENDPOINTS[f_k], FetchArgs.course_id,
                                FetchArgs.course_title, FetchArgs.academic_year, f_window),
            fetch_timetable_failed(FetchArgs.course_id, FetchArgs.course_title,
                                   FetchArgs.academic_year, f_window),
            None)
    /\ UNCHANGED <<dateVars, collVars, orchVars, callVars, scraperVars>>

GetCurriculumTimetableCall ==
    /\ f_fn = "get_curriculum_timetable"
    /\ FetchEnter(FetchArgs.curriculum)
    /\ UNCHANGED <<dateVars, collVars, orchVars, callVars, scraperVars>>

GetCurriculumTimetableRespond ==
    /\ f_fn = "get_curriculum_timetable"
    /\ f_pc = "await"
    /\ \E resp \in FetchResponses :
        FetchResume(resp,
            get_curriculum_timetable_try(resp, FetchArgs.curriculum),
            get_curriculum_timetable_failed(FetchArgs.curriculum),
            FetchArgs.curriculum)
    /\ UNCHANGED <<dateVars, collVars, orchVars, callVars, scraperVars>>

NextFetch ==
    \/ FetchTimetableCall
    \/ FetchTimetableRespond
    \/ GetCurriculumTimetableCall
    \/ GetCurriculumTimetableRespond

SpecFetch == InitFetch /\ [][NextFetch]_vars

\* the awaited get ends in a timeout: every request carries the client's
\* aiohttp.ClientTimeout(total=timeout)
FetchTimeout ==
    /\ f_pc = "await"
    /\ LET resp == Raise("TimeoutError")
       IN  IF f_fn = "fetch_timetable"
           THEN FetchResume(resp,
                    fetch_timetable_try(resp, TIMETABLE_ENDPOINTS[f_k], FetchArgs.course_id,
                                        FetchArgs.course_title, FetchArgs.academic_year, f_window),
                    fetch_timetable_failed(FetchArgs.course_id, FetchArgs.course_title,
                                           FetchArgs.academic_year, f_window),
                    None)
           ELSE FetchResume(resp,
                    get_curriculum_timetable_try(resp, FetchArgs.curriculum),
                    get_curriculum_timetable_failed(FetchArgs.curriculum),
                    FetchArgs.curriculum)
    /\ UNCHANGED <<dateVars, collVars, orchVars, callVars, scraperVars>>

\* a called fetch runs to its first request, and no awaited get outlasts its timeout
SpecFetchLive ==
    /\ SpecFetch
    /\ WF_vars(FetchTimetableCall \/ GetCurriculumTimetableCall)
    /\ WF_vars(FetchTimeout)

\* C1: in fetch_timetable, when the first candidate returns a structurally invalid
\* payload and the second a valid (possibly empty) array, the returned Timetable has
\* fetch_successful = true and endpoint_used = the second candidate's path.
C1_FallbackSucceeds ==
    (/\ f_fn = "fetch_timetable"
     /\ f_pc = "returned"
     /\ Len(f_hist) = 2
     /\ f_hist[1] = "invalid_shape"
     /\ f_hist[2] = "valid_array")
    => /\ f_ret.fetch_successful
       /\ f_ret.endpoint_used = Str(TIMETABLE_ENDPOINTS[2])

FailureClasses == {"transport", "unparsable", "invalid_shape"}

AllCandidatesFailed ==
    /\ Len(f_hist) = Len(TIMETABLE_ENDPOINTS)
    /\ \A i \in 1..Len(f_hist) : f_hist[i] \in FailureClasses

\* C2: when every candidate fails (transport error, timeout, non-2xx, unparsable body
\* or invalid shape), fetch_timetable and get_curriculum_timetable return normally and
\* the result holds zero events; fetch_timetable's result has fetch_successful = false,
\* has_timetable = false and no endpoint_used.
C2_AllFailedReturnsEmpty ==
    AllCandidatesFailed =>
        /\ f_pc = "returned"
        /\ f_ret.py = IF f_fn = "fetch_timetable" THEN "Timetable" ELSE "CurriculumTimetable"
        /\ PyLen(f_ret.events) = 0
        /\ f_fn = "fetch_timetable" =>
            /\ ~f_ret.fetch_successful
            /\ ~f_ret.has_timetable
            /\ IsNone(f_ret.endpoint_used)

\* a timeout on the first candidate and a non-array payload on the second
C2_Witness ==
    /\ AllCandidatesFailed
    /\ f_fn = "fetch_timetable"
    /\ f_hist = <<"transport", "invalid_shape">>
    /\ f_pc = "returned"
    /\ ~f_ret.fetch_successful

NonDecreasingByStart(events) ==
    \A i \in 1..Len(events) : \A j \in 1..Len(events) : i <= j => events[i].start <= events[j].start

\* a and b hold the same elements the same number of times
SameElements(a, b) ==
    /\ Len(a) = Len(b)
    /\ \E f \in [1..Len(a) -> 1..Len(a)] :
        /\ \A i \in 1..Len(a) : \A j \in 1..Len(a) : f[i] = f[j] => i = j
        /\ \A i \in 1..Len(a) : a[i] = b[f[i]]

\* C3: when get_curriculum_timetable accepts a candidate's payload of n records, the
\* events of the returned CurriculumTimetable are exactly the n decoded events of that
\* payload, one per record, ordered non-decreasingly by start.
C3_CurriculumEventsDecoded ==
    (/\ f_fn = "get_curriculum_timetable"
     /\ f_pc = "returned"
     /\ f_acc > 0)
    => LET recs == f_last.items
       IN  /\ PyLen(f_ret.events) = Len(recs)
           /\ \A i \in 1..PyLen(f_ret.events) : f_ret.events.items[i].py = "TimetableEvent"
           /\ SameElements(f_ret.events.items, [i \in 1..Len(recs) |-> parse_event(recs[i])])
           /\ NonDecreasingByStart(f_ret.events.items)

\* C19: the failure of a curriculum fetch is visible to the caller as data: the result
\* of a get_curriculum_timetable whose candidates all failed carries an unsuccessful
\* tag and no endpoint, the result of one that accepted an empty array a successful
\* tag and the endpoint that answered, so the two are distinguishable.
C19_CurriculumFailureVisible ==
    (f_fn = "get_curriculum_timetable" /\ f_pc = "returned") =>
        /\ {"fetch_successful", "endpoint_used"} \subseteq DOMAIN f_ret
        /\ AllCandidatesFailed =>
            /\ ~f_ret.fetch_successful
            /\ IsNone(f_ret.endpoint_used)
        /\ (f_acc > 0 /\ f_last.items = <<>>) =>
            /\ f_ret.fetch_successful
            /\ f_ret.endpoint_used = Str(TIMETABLE_ENDPOINTS[f_acc])

\* the events a returned result holds: those of its events list, or of the list
\* inside the pair parse_events returned
EventsHeld(result) ==
    IF result.events.py = "tuple" THEN result.events.items[1].items ELSE result.events.items

\* C21: every event the decoder produced, as held by the result of a fetch, satisfies
\* start < end.
C21_StartBeforeEnd ==
    f_pc = "returned" =>
        \A i \in 1..Len(EventsHeld(f_ret)) : EventsHeld(f_ret)[i].start < EventsHeld(f_ret)[i].end

\* the requests of a fetch go to the candidates in list order, each at most once; all
\* but the last have been answered and none of those was accepted; an accepted
\* candidate is the last one requested and the fetch has returned
RequestsInOrder ==
    /\ Len(f_reqs) <= Len(TIMETABLE_ENDPOINTS)
    /\ \A i \in 1..Len(f_reqs) : f_reqs[i].url = <<f_url, TIMETABLE_ENDPOINTS[i]>>
    /\ Len(f_reqs) = IF f_pc = "await" THEN Len(f_hist) + 1 ELSE Len(f_hist)
    /\ f_acc > 0 => f_acc = Len(f_reqs) /\ f_pc = "returned"

\* C22: within one fetch the candidate endpoints are requested strictly in list order,
\* each at most once, candidate k+1 only after candidate k has failed; once a payload
\* is accepted no further request is issued; the fetch terminates after at most as
\* many requests as there are candidates.
C22_CandidatesInOrder ==
    /\ []RequestsInOrder
    /\ <>(f_pc \in {"returned", "raised"})

\* the first candidate failed and the second was accepted
C22_Witness ==
    /\ f_fn = "get_curriculum_timetable"
    /\ f_pc = "returned"
    /\ Len(f_reqs) = 2
    /\ f_acc = 2
    /\ f_hist[1] \in FailureClasses

\* C25: a payload that passes validation is not given up because one of its records
\* cannot be decoded: the fetch returns through that candidate, and its result holds
\* the event of every record of the payload that can be decoded.
C25_RecordFailureKeepsBatch ==
    (f_fn = "get_curriculum_timetable" /\ f_pc = "returned") =>
        \A k \in 1..Len(f_hist) :
            f_hist[k] = "valid_array" =>
                /\ f_acc = k
                /\ \A i \in 1..Len(f_last.items) :
                    ~Raised(parse_event(f_last.items[i])) =>
                        \E j \in 1..Len(EventsHeld(f_ret)) :
                            EventsHeld(f_ret)[j] = parse_event(f_last.items[i])

\* C29: fetch_timetable and get_curriculum_timetable called with an empty
\* course_site_url raise ValueError before any request is issued; the error reaches
\* the caller, no candidate is tried and no timetable is returned.
C29_EmptyUrlRaises ==
    (f_url = "" /\ f_pc \notin {"idle", "call"}) =>
        /\ f_pc = "raised"
        /\ f_ret = Raise("ValueError")
        /\ f_reqs = <<>>
        /\ f_hist = <<>>

\* a curriculum fetch with an empty URL has raised
C29_Witness ==
    /\ f_fn = "get_curriculum_timetable"
    /\ f_url = ""
    /\ f_pc = "raised"
    /\ f_ret = Raise("ValueError")

\* C10: the start and end parameters of every request of a fetch are the window
\* resolved from the caller's reference_date and widen flag (the current date only
\* standing in for an absent reference_date).
C10_WindowFromReferenceDate ==
    \A i \in 1..Len(f_reqs) :
        LET w == get_academic_year_range(f_ref, f_ext, f_now)
        IN  /\ f_reqs[i].params.start = format_date_for_api(w[1])
            /\ f_reqs[i].params.end = format_date_for_api(w[2])

-----------------------------------------------------------------------------
(* A collection under arbitrary adds and queries *)

StudyYears == 1..MaxStudyYear

CurriculumCodes == {"000-000", "B69-000"}

CollEvent(t) ==
    [py |-> "TimetableEvent", title |-> "T", start |-> t, end |-> t + 1,
     professor |-> None, module_code |-> None, teaching_period |-> None,
     is_remote |-> FALSE, teams_link |-> None]

\* the event lists of the timetables added: each sorted by start, as a fetch leaves them
CollEventLists ==
    {<<>>, <<CollEvent(1)>>, <<CollEvent(2)>>, <<CollEvent(1), CollEvent(2)>>}

InitColl ==
    /\ ScraperIdle
    /\ CallIdle
    /\ DateIdle
    /\ FetchIdle
    /\ OrchIdle
    /\ CollIdle

AddCurriculumTimetable ==
    /\ c_adds < MaxAdds
    /\ c_query = <<>>
    /\ \E year \in StudyYears, code \in CurriculumCodes, events \in CollEventLists :
        LET curriculum_timetable == CurriculumTimetable(Curriculum(code, "track"), PyList(events))
        IN  /\ coll' = add_curriculum_timetable(coll, year, curriculum_timetable)
            /\ c_added' = <<year, curriculum_timetable>>
    /\ c_adds' = c_adds + 1
    /\ UNCHANGED <<c_query, c_out>>
    /\ UNCHANGED <<dateVars, fetchVars, orchVars, callVars, scraperVars>>

\* a consumer's query of the assembled collection
GetAllEvents ==
    /\ c_query = <<>>
    /\ \E year \in {None} \cup {PyInt(y) : y \in StudyYears},
          code \in {None} \cup {Str(c) : c \in CurriculumCodes} :
        /\ c_query' = <<year, code>>
        /\ c_out' = get_all_events(coll, year, code)
    /\ c_added' = <<>>
    /\ UNCHANGED <<coll, c_adds>>
    /\ UNCHANGED <<dateVars, fetchVars, orchVars, callVars, scraperVars>>

NextColl == AddCurriculumTimetable \/ GetAllEvents

SpecColl == InitColl /\ [][NextColl]_vars

\* the (year, code) pairs that hold a timetable
StoredPairs(years) ==
    {p \in DictKeys(years) \X CurriculumCodes : DictHas(DictGet(years, p[1]).curricula, p[2])}

StoredEvents(years, p) == DictGet(DictGet(years, p[1]).curricula, p[2]).events

RECURSIVE SumOver(_, _)
SumOver(S, f) ==
    IF S = {} THEN 0
    ELSE LET x == CHOOSE x \in S : TRUE IN f[x] + SumOver(S \ {x}, f)

Count(seq, e) == Cardinality({i \in 1..Len(seq) : seq[i] = e})

\* C7: after any sequence of add_curriculum_timetable operations the length of
\* get_all_events() is the sum of len(curriculum.events) over every year and curriculum
\* of the collection, and every event occurs in the flattened result as many times as in
\* the stored curriculum timetables.
C7_FlattenIsPartition ==
    LET flat == get_all_events(coll, None, None).items
        pairs == StoredPairs(coll)
    IN  /\ Len(flat) = SumOver(pairs, [p \in pairs |-> PyLen(StoredEvents(coll, p))])
        /\ collection_len(coll) = Len(flat)
        /\ \A events \in CollEventLists : \A i \in 1..Len(events) :
            Count(flat, events[i]) =
                SumOver(pairs, [p \in pairs |-> Count(StoredEvents(coll, p).items, events[i])])

\* two years, three timetables stored, one of them holding two events
C7_Witness ==
    /\ Cardinality(StoredPairs(coll)) = 3
    /\ Cardinality(DictKeys(coll)) = 2
    /\ \E p \in StoredPairs(coll) : PyLen(StoredEvents(coll, p)) = 2
    /\ collection_len(coll) >= 3

\* the timetable stored under the pair p
Stored(years, p) == DictGet(DictGet(years, p[1]).curricula, p[2])

\* C20: add_curriculum_timetable(year, t) creates the year's container if absent and
\* stores t under t's curriculum code, replacing the timetable the pair (year, code)
\* held; the timetables of all other pairs are unchanged, so each pair holds the
\* timetable added last for it.
C20_AddStoresLastWriter ==
    [][c_adds' = c_adds + 1 =>
        LET year == c_added'[1]
            t == c_added'[2]
            pair == <<year, t.curriculum.code>>
        IN  /\ DictHas(coll', year)
            /\ DictKeys(coll') = DictKeys(coll) \cup {year}
            /\ StoredPairs(coll') = StoredPairs(coll) \cup {pair}
            /\ Stored(coll', pair) = t
            /\ \A p \in StoredPairs(coll) \ {pair} : Stored(coll', p) = Stored(coll, p)]_vars

\* three adds left two pairs of one year, so one add replaced a timetable; the pair
\* added last holds the timetable added, of two events
C20_Witness ==
    /\ c_adds = MaxAdds
    /\ Cardinality(StoredPairs(coll)) = 2
    /\ \E p \in StoredPairs(coll) :
        /\ p = <<c_added[1], c_added[2].curriculum.code>>
        /\ Stored(coll, p) = c_added[2]
        /\ PyLen(c_added[2].events) = 2
        /\ \E q \in StoredPairs(coll) : q # p /\ q[1] = p[1]

\* C8: for every scope get_all_events can be asked for (whole collection, one year, one
\* curriculum code across years, one year and curriculum) the returned sequence is
\* non-decreasing by start time.
C8_QuerySortedByStart ==
    c_out.py = "list" => NonDecreasingByStart(c_out.items)

-----------------------------------------------------------------------------
(* scrapers/timetable.py: get_timetables, its fetches running concurrently *)

\* the (year, coroutine) list built by the nested loops: year-major, each entry with
\* the curriculum its get_curriculum_timetable call was given
RECURSIVE BuildTasks(_, _)
BuildTasks(academic_years, curricula) ==
    IF academic_years = <<>> THEN <<>>
    ELSE [j \in 1..Len(curricula) |-> [year |-> academic_years[1], curriculum |-> curricula[j]]]
         \o BuildTasks(SubSeq(academic_years, 2, Len(academic_years)), curricula)

\* faulty variant: the results in the order in which the coroutines finished
GatherResultsAsCompleted(rets, done) == [k \in 1..Len(done) |-> rets[done[k]]]

\* what `await asyncio.gather(*coroutines)` returns: the results in argument order
GatherResults(rets, done) == rets

\* upstream answers to the fetches of get_timetables: a timeout, a non-array payload,
\* an empty array, arrays of one and of two (unsorted) records
OrchRecord(t) == [py |-> "dict", title |-> "T", start |-> Ts(t, "+01:00"), end |-> Ts(t + 1, "+01:00")]

OrchResponses ==
    {Raise("TimeoutError"), Body(TRUE, [py |-> "dict"]), Body(TRUE, PyList(<<>>)),
     Body(TRUE, PyList(<<OrchRecord(1)>>)), Body(TRUE, PyList(<<OrchRecord(2), OrchRecord(1)>>))}

\* lists of distinct years, none to two of them
YearLists ==
    {<<>>} \cup {<<y>> : y \in StudyYears}
    \cup {p \in StudyYears \X StudyYears : p[1] # p[2]}

\* lists of curricula with pairwise distinct codes
CurriculaLists ==
    {<<>>, <<Curriculum("000-000", "General Track")>>,
     <<Curriculum("B69-000", "Advanced Track"), Curriculum("000-000", "General Track")>>}

InitOrch ==
    /\ ScraperIdle
    /\ CallIdle
    /\ DateIdle
    /\ FetchIdle
    /\ CollIdle
    /\ o_pc = "call"
    /\ o_url \in CourseSiteUrls
    /\ o_years \in YearLists
    /\ o_curricula \in CurriculaLists
    /\ o_tasks = <<>>
    /\ o_results = <<>>
    /\ o_i = 0
    /\ o_total = 0
    /\ t_pc = <<>> /\ t_k = <<>> /\ t_err = <<>> /\ t_ret = <<>> /\ t_n = <<>> /\ t_done = <<>>

\* get_timetables up to `await asyncio.gather(...)`: the coroutines are created
GetTimetablesCall ==
    /\ o_pc = "call"
    /\ o_tasks' = BuildTasks(o_years, o_curricula)
    /\ t_pc' = [i \in 1..Len(o_tasks') |-> "created"]
    /\ t_k' = [i \in 1..Len(o_tasks') |-> 0]
    /\ t_err' = [i \in 1..Len(o_tasks') |-> TRUE]
    /\ t_ret' = [i \in 1..Len(o_tasks') |-> None]
    /\ t_n' = [i \in 1..Len(o_tasks') |-> 0]
    /\ o_pc' = "gather"
    /\ UNCHANGED <<o_url, o_years, o_curricula, o_results, o_i, o_total, t_done>>
    /\ UNCHANGED <<dateVars, fetchVars, collVars, callVars, scraperVars>>

\* task i runs get_curriculum_timetable up to its first await; the event loop starts
\* the tasks of a gather in argument order
TaskStart(i) ==
    /\ o_pc = "gather"
    /\ t_pc[i] = "created"
    /\ \A j \in 1..(i - 1) : t_pc[j] # "created"
    /\ IF o_url = ""
       THEN /\ t_pc' = [t_pc EXCEPT ![i] = "raised"]
            /\ t_ret' = [t_ret EXCEPT ![i] = Raise("ValueError")]
            /\ UNCHANGED t_k
       ELSE /\ t_pc' = [t_pc EXCEPT ![i] = "await"]
            /\ t_k' = [t_k EXCEPT ![i] = 1]
            /\ UNCHANGED t_ret
    /\ UNCHANGED <<o_pc, o_url, o_years, o_curricula, o_tasks, o_results, o_i, o_total,
                   t_err, t_n, t_done>>
    /\ UNCHANGED <<dateVars, fetchVars, collVars, callVars, scraperVars>>

\* task i resumes with the response of its candidate t_k[i] and runs to its next
\* request or to its return
TaskRespond(i) ==
    /\ o_pc \in {"gather", "raised"}
    /\ t_pc[i] = "await"
    /\ \E resp \in OrchResponses :
        LET r == get_curriculum_timetable_try(resp, o_tasks[i].curriculum)
        IN  /\ t_err' = [t_err EXCEPT ![i] = @ /\ Raised(resp)]
            /\ IF r.py # "continue"
               THEN /\ t_pc' = [t_pc EXCEPT ![i] = "returned"]
                    /\ t_ret' = [t_ret EXCEPT ![i] = r]
                    /\ t_n' = [t_n EXCEPT ![i] = PyLen(json_loads(resp))]
                    /\ t_done' = Append(t_done, i)
                    /\ t_k' = [t_k EXCEPT ![i] = 0]
               ELSE IF t_k[i] < Len(TIMETABLE_ENDPOINTS)
               THEN /\ t_k' = [t_k EXCEPT ![i] = @ + 1]
                    /\ UNCHANGED <<t_pc, t_ret, t_n, t_done>>
               ELSE /\ t_pc' = [t_pc EXCEPT ![i] = "returned"]
                    /\ t_ret' = [t_ret EXCEPT ![i] = get_curriculum_timetable_failed(o_tasks[i].curriculum)]
                    /\ t_done' = Append(t_done, i)
                    /\ t_k' = [t_k EXCEPT ![i] = 0]
                    /\ UNCHANGED t_n
    /\ UNCHANGED <<o_pc, o_url, o_years, o_curricula, o_tasks, o_results, o_i, o_total>>
    /\ UNCHANGED <<dateVars, fetchVars, collVars, callVars, scraperVars>>

\* faulty variant: the gather is left as soon as one fetch has returned, the fetches
\* still in flight counting as failed
GatherReturnFirstCompleted ==
    /\ o_pc = "gather"
    /\ \E i \in 1..Len(o_tasks) : t_pc[i] = "returned"
    /\ o_results' = [i \in 1..Len(o_tasks) |->
                        IF t_pc[i] = "returned" THEN t_ret[i]
                        ELSE get_curriculum_timetable_failed(o_tasks[i].curriculum)]
    /\ coll' = <<>>
    /\ o_i' = 1
    /\ o_pc' = "fold"
    /\ UNCHANGED <<o_url, o_years, o_curricula, o_tasks, o_total, t_pc, t_k, t_err, t_ret, t_n, t_done>>
    /\ UNCHANGED <<dateVars, fetchVars, c_adds, c_added, c_query, c_out, callVars, scraperVars>>

\* every task has returned: gather hands over the results and get_timetables creates
\* its collection
GatherReturn ==
    /\ o_pc = "gather"
    /\ \A i \in 1..Len(o_tasks) : t_pc[i] = "returned"
    /\ o_results' = GatherResults(t_ret, t_done)
    /\ coll' = <<>>
    /\ o_i' = 1
    /\ o_pc' = "fold"
    /\ UNCHANGED <<o_url, o_years, o_curricula, o_tasks, o_total, t_pc, t_k, t_err, t_ret, t_n, t_done>>
    /\ UNCHANGED <<dateVars, fetchVars, c_adds, c_added, c_query, c_out, callVars, scraperVars>>

\* a task raised: gather passes the exception on and get_timetables raises
GatherRaise ==
    /\ o_pc = "gather"
    /\ \E i \in 1..Len(o_tasks) : t_pc[i] = "raised"
    /\ o_pc' = "raised"
    /\ UNCHANGED <<o_url, o_years, o_curricula, o_tasks, o_results, o_i, o_total,
                   t_pc, t_k, t_err, t_ret, t_n, t_done>>
    /\ UNCHANGED <<dateVars, fetchVars, collVars, callVars, scraperVars>>

\* one turn of `for (year, _), curriculum_timetable in zip(tasks, results)`
FoldStep ==
    /\ o_pc = "fold"
    /\ o_i <= Len(o_tasks)
    /\ coll' = add_curriculum_timetable(coll, o_tasks[o_i].year, o_results[o_i])
    /\ o_i' = o_i + 1
    /\ UNCHANGED <<o_pc, o_url, o_years, o_curricula, o_tasks, o_results, o_total,
                   t_pc, t_k, t_err, t_ret, t_n, t_done>>
    /\ UNCHANGED <<dateVars, fetchVars, c_adds, c_added, c_query, c_out, callVars, scraperVars>>

\* the loop is over: total_events is computed and the collection returned
GetTimetablesReturn ==
    /\ o_pc = "fold"
    /\ o_i > Len(o_tasks)
    /\ o_total' = collection_len(coll)
    /\ o_pc' = "returned"
    /\ UNCHANGED <<o_url, o_years, o_curricula, o_tasks, o_results, o_i,
                   t_pc, t_k, t_err, t_ret, t_n, t_done>>
    /\ UNCHANGED <<dateVars, fetchVars, collVars, callVars, scraperVars>>

NextOrch ==
    \/ GetTimetablesCall
    \/ \E i \in 1..Len(o_tasks) : TaskStart(i)
    \/ \E i \in 1..Len(o_tasks) : TaskRespond(i)
    \/ GatherReturn
    \/ GatherRaise
    \/ FoldStep
    \/ GetTimetablesReturn

SpecOrch == InitOrch /\ [][NextOrch]_vars

SeqToSet(seq) == {seq[i] : i \in 1..Len(seq)}

RequestedCodes == {o_curricula[j].code : j \in 1..Len(o_curricula)}

\* the collection has exactly the requested years, and each year exactly one timetable
\* per requested curriculum code
HoldsCrossProduct ==
    /\ DictKeys(coll) = SeqToSet(o_years)
    /\ \A y \in SeqToSet(o_years) :
        /\ Cardinality({i \in 1..Len(coll) : coll[i].key = y}) = 1
        /\ DictKeys(DictGet(coll, y).curricula) = RequestedCodes
        /\ \A c \in RequestedCodes :
            Cardinality({i \in 1..Len(DictGet(coll, y).curricula) :
                            DictGet(coll, y).curricula[i].key = c}) = 1

\* C4 as stated: for any list of distinct years Y and any list of curricula C with
\* distinct codes, the collection returned by get_timetables has exactly the years of Y
\* as keys, each holding exactly one timetable per code of C, whatever the fetches' outcome.
C4_CrossProductAnyLists ==
    o_pc = "returned" => HoldsCrossProduct

\* C4, amended: the same for any non-empty list of curricula; with no curricula no fetch
\* is issued and the returned collection has no year at all.
C4_CrossProduct ==
    o_pc = "returned" =>
        /\ o_curricula # <<>> => HoldsCrossProduct
        /\ o_curricula = <<>> => coll = <<>>

\* years [1, 2] and two curricula, with a failed, an empty and a non-empty fetch
C4_Witness ==
    /\ o_pc = "returned"
    /\ Len(o_years) = 2 /\ Len(o_curricula) = 2
    /\ \E i \in 1..Len(o_tasks) : t_ret[i].events.py = "list"
    /\ \E i \in 1..Len(o_tasks) : t_ret[i].events.py = "tuple" /\ t_n[i] = 0
    /\ \E i \in 1..Len(o_tasks) : t_n[i] = 2
    /\ HoldsCrossProduct

RECURSIVE SumSeq(_)
SumSeq(seq) == IF seq = <<>> THEN 0 ELSE seq[1] + SumSeq(SubSeq(seq, 2, Len(seq)))

\* C5: the total event count of the collection returned by get_timetables equals the
\* sum, over all (year, curriculum) pairs, of the number of records decoded by that
\* pair's fetch (0 for a pair whose candidates all failed).
C5_TotalEventCount ==
    o_pc = "returned" =>
        /\ collection_len(coll) = SumSeq(t_n)
        /\ o_total = SumSeq(t_n)

\* C6: for every order in which the fetches of get_timetables complete, the timetable
\* stored under (year y, code c) is the result of the fetch issued for (y, c).
C6_ResultPerPair ==
    o_pc = "returned" =>
        \A i \in 1..Len(o_tasks) :
            /\ DictHas(coll, o_tasks[i].year)
            /\ DictHas(DictGet(coll, o_tasks[i].year).curricula, o_tasks[i].curriculum.code)
            /\ DictGet(DictGet(coll, o_tasks[i].year).curricula, o_tasks[i].curriculum.code) = t_ret[i]

\* four fetches that completed last-issued first, the first and the last with
\* different results
C6_Witness ==
    /\ o_pc = "returned"
    /\ Len(o_tasks) = 4
    /\ t_done = <<4, 3, 2, 1>>
    /\ t_n[1] = 2 /\ t_n[4] = 1
    /\ DictGet(DictGet(coll, o_tasks[1].year).curricula, o_tasks[1].curriculum.code) = t_ret[1]

\* C23: in get_timetables called with a non-empty course URL, a pair whose every
\* request timed out or errored does not make get_timetables raise: every fetch
\* returns a timetable, the returned collection holds under every pair the result of
\* that pair's own fetch, and under the failed pair an empty timetable.
C23_FailureIsolated ==
    o_url # "" =>
        /\ o_pc # "raised"
        /\ \A i \in 1..Len(o_tasks) :
            /\ t_pc[i] # "raised"
            /\ t_pc[i] = "returned" => t_ret[i].py = "CurriculumTimetable"
        /\ o_pc = "returned" =>
            \A i \in 1..Len(o_tasks) :
                LET pair == <<o_tasks[i].year, o_tasks[i].curriculum.code>>
                IN  /\ pair \in StoredPairs(coll)
                    /\ Stored(coll, pair) = t_ret[i]
                    /\ t_err[i] => Stored(coll, pair).events = PyList(<<>>)

\* two pairs, the requests of the first all timed out, the second decoded two records
C23_Witness ==
    /\ o_url # ""
    /\ o_pc = "returned"
    /\ Len(o_tasks) = 2
    /\ t_err[1] /\ ~t_err[2]
    /\ t_n[2] = 2
    /\ Stored(coll, <<o_tasks[1].year, o_tasks[1].curriculum.code>>).events = PyList(<<>>)
    /\ Stored(coll, <<o_tasks[2].year, o_tasks[2].curriculum.code>>) = t_ret[2]

\* a fetch of get_timetables is in flight: created or awaiting a response
InFlight(i) == t_pc[i] \in {"created", "await"}

\* C24: in get_timetables the collection is written only after the gather: it is empty
\* until every fetch has completed, and every step that changes it is one
\* add_curriculum_timetable of the fold, taken in task order by the orchestrating flow
\* while no fetch is in flight.
C24_WritesAfterBarrier ==
    /\ []((o_pc \in {"call", "gather", "raised"} \/ \E i \in 1..Len(o_tasks) : InFlight(i)) => coll = <<>>)
    /\ [][coll' # coll =>
            /\ o_pc = "fold" /\ o_pc' = "fold"
            /\ \A i \in 1..Len(o_tasks) : ~InFlight(i)
            /\ o_i \in 1..Len(o_tasks)
            /\ o_i' = o_i + 1
            /\ coll' = add_curriculum_timetable(coll, o_tasks[o_i].year, o_results[o_i])
            /\ UNCHANGED <<t_pc, t_k, t_ret>>]_vars

\* four fetches have completed and the fold has written two of their results
C24_Witness ==
    /\ o_pc = "fold"
    /\ Len(o_tasks) = 4
    /\ o_i = 3
    /\ Cardinality(StoredPairs(coll)) = 2
    /\ \A i \in 1..Len(o_tasks) : t_pc[i] = "returned"

-----------------------------------------------------------------------------
(* A CurriculumTimetable under add_event *)

\* the timetables events are added to: results of get_curriculum_timetable, and
\* timetables constructed from a list of events sorted by start
CurrTimetables ==
    {get_curriculum_timetable_failed(FetchArgs.curriculum)}
    \cup {get_curriculum_timetable_try(resp, FetchArgs.curriculum) :
            resp \in {r \in OrchResponses :
                        get_curriculum_timetable_try(r, FetchArgs.curriculum).py # "continue"}}
    \cup {CurriculumTimetable(FetchArgs.curriculum, PyList(events)) : events \in CollEventLists}

CurrEvents == {CollEvent(t) : t \in 1..(MaxTime + 1)}

\* p_ret is the timetable, p_args the events add_event was called with
InitCurr ==
    /\ ScraperIdle
    /\ DateIdle
    /\ FetchIdle
    /\ CollIdle
    /\ OrchIdle
    /\ p_pc = "call"
    /\ p_fn = "add_event"
    /\ p_args = <<>>
    /\ p_ret \in CurrTimetables

AddEvent ==
    /\ p_pc = "call"
    /\ p_fn = "add_event"
    /\ Len(p_args) < MaxAdds
    /\ \E event \in CurrEvents :
        LET r == CurriculumTimetable_add_event(p_ret, event)
        IN  /\ p_args' = Append(p_args, event)
            /\ IF Raised(r)
               THEN p_pc' = "raised" /\ p_ret' = p_ret
               ELSE p_pc' = p_pc /\ p_ret' = r
    /\ UNCHANGED p_fn
    /\ UNCHANGED <<dateVars, fetchVars, collVars, orchVars, scraperVars>>

NextCurr == AddEvent

SpecCurr == InitCurr /\ [][NextCurr]_vars

\* C27: the events of a CurriculumTimetable, as produced by a fetch and after any
\* sequence of add_event operations, are non-decreasing by start time.
C27_CurriculumEventsSorted ==
    p_fn = "add_event" => NonDecreasingByStart(EventsHeld(p_ret))

-----------------------------------------------------------------------------
(* clients/http.py and TimetableScraper.__aenter__ / __aexit__ *)

MaxGets == 2
MaxEnters == 2

\* HTTPClient.__init__: no session yet
HTTPClient == [py |-> "HTTPClient", _session |-> None]

\* HTTPClient.__aenter__ of the client at address c: a new aiohttp.ClientSession
HTTPClient_aenter(clients, sessions, c) ==
    [clients |-> [clients EXCEPT ![c]._session = PyInt(Len(sessions) + 1)],
     sessions |-> Append(sessions, [py |-> "ClientSession", closed |-> FALSE])]

\* HTTPClient.__aexit__: the session, if any, is closed and forgotten
HTTPClient_aexit(clients, sessions, c) ==
    IF IsNone(clients[c]._session) THEN [clients |-> clients, sessions |-> sessions]
    ELSE [clients |-> [clients EXCEPT ![c]._session = None],
          sessions |-> [sessions EXCEPT ![clients[c]._session.val].closed = TRUE]]

\* HTTPClient.get: RuntimeError without a session, else the request is made
HTTPClient_get(clients, c) ==
    IF IsNone(clients[c]._session) THEN Raise("RuntimeError") ELSE Str("body")

\* TimetableScraper.__init__(http_client): http_client is None or the address of a client
TimetableScraper(http_client) ==
    [py |-> "TimetableScraper", _external_client |-> http_client, _internal_client |-> None,
     http_client |-> http_client]

\* faulty variant: the internal client is closed only when the body ended normally
ScraperExitUnlessRaised(exc) ==
    /\ s_pc = "entered"
    /\ IF ~IsNone(s_self._internal_client) /\ ~exc
       THEN LET h == HTTPClient_aexit(h_clients, h_sessions, s_self._internal_client.val)
            IN  /\ h_clients' = h.clients
                /\ h_sessions' = h.sessions
                /\ s_ops' = Append(s_ops, <<"__aexit__", s_self._internal_client.val>>)
       ELSE UNCHANGED <<h_clients, h_sessions, s_ops>>
    /\ s_pc' = IF exc THEN "raised" ELSE "exited"
    /\ UNCHANGED s_self
    /\ UNCHANGED <<dateVars, fetchVars, collVars, orchVars, callVars>>

\* the caller's clients: none, one that was never entered, one inside its own
\* `async with`
CallerHeaps ==
    {[clients |-> <<>>, sessions |-> <<>>],
     [clients |-> <<HTTPClient>>, sessions |-> <<>>],
     HTTPClient_aenter(<<HTTPClient>>, <<>>, 1)}

\* a scraper constructed without a client, or with the caller's client
InitScraper ==
    /\ DateIdle
    /\ FetchIdle
    /\ CollIdle
    /\ OrchIdle
    /\ CallIdle
    /\ s_pc = "constructed"
    /\ s_ops = <<>>
    /\ \E h \in CallerHeaps :
        /\ h_clients = h.clients
        /\ h_sessions = h.sessions
        /\ s_self \in {TimetableScraper(None)} \cup {TimetableScraper(PyInt(c)) : c \in 1..Len(h.clients)}

Entered == Cardinality({i \in 1..Len(s_ops) : s_ops[i][1] = "enter"})

Gets == Cardinality({i \in 1..Len(s_ops) : s_ops[i][1] = "get"})

\* TimetableScraper.__aenter__, of a scraper that is not inside its block: `async with`
\* enters it once and exits it before it is entered again
ScraperEnter ==
    /\ s_pc \in {"constructed", "exited", "raised"}
    /\ Entered < MaxEnters
    /\ IF IsNone(s_self._external_client)
       THEN LET c == Len(h_clients) + 1
                h == HTTPClient_aenter(Append(h_clients, HTTPClient), h_sessions, c)
            IN  /\ h_clients' = h.clients
                /\ h_sessions' = h.sessions
                /\ s_self' = [s_self EXCEPT !._internal_client = PyInt(c), !.http_client = PyInt(c)]
                /\ s_ops' = s_ops \o << <<"enter">>, <<"__aenter__", c>> >>
       ELSE /\ s_self' = [s_self EXCEPT !.http_client = s_self._external_client]
            /\ s_ops' = Append(s_ops, <<"enter">>)
            /\ UNCHANGED <<h_clients, h_sessions>>
    /\ s_pc' = "entered"
    /\ UNCHANGED <<dateVars, fetchVars, collVars, orchVars, callVars>>

\* a request of a fetch inside the block: self.http_client.get(url, params=params)
ScraperGet ==
    /\ s_pc = "entered"
    /\ Gets < MaxGets
    /\ s_ops' = Append(s_ops, <<"get", s_self.http_client.val,
                                HTTPClient_get(h_clients, s_self.http_client.val)>>)
    /\ UNCHANGED <<s_pc, s_self, h_clients, h_sessions>>
    /\ UNCHANGED <<dateVars, fetchVars, collVars, orchVars, callVars>>

\* TimetableScraper.__aexit__, the body having raised (exc) or not; it returns False,
\* so an exception of the body goes on to the caller
ScraperExit(exc) ==
    /\ s_pc = "entered"
    /\ IF ~IsNone(s_self._internal_client)
       THEN LET h == HTTPClient_aexit(h_clients, h_sessions, s_self._internal_client.val)
            IN  /\ h_clients' = h.clients
                /\ h_sessions' = h.sessions
                /\ s_ops' = Append(s_ops, <<"__aexit__", s_self._internal_client.val>>)
       ELSE UNCHANGED <<h_clients, h_sessions, s_ops>>
    /\ s_pc' = IF exc THEN "raised" ELSE "exited"
    /\ UNCHANGED s_self
    /\ UNCHANGED <<dateVars, fetchVars, collVars, orchVars, callVars>>

NextScraper ==
    \/ ScraperEnter
    \/ ScraperGet
    \/ \E exc \in BOOLEAN : ScraperExit(exc)

SpecScraper == InitScraper /\ [][NextScraper]_vars

\* the scraper was constructed with a client of the caller
Borrowed == ~IsNone(s_self._external_client)

\* the clients the scraper entered
OpenedByScraper == {s_ops[i][2] : i \in {j \in 1..Len(s_ops) : s_ops[j][1] = "__aenter__"}}

\* the client the scraper entered last
LastOpened == s_ops[CHOOSE i \in 1..Len(s_ops) :
                        /\ s_ops[i][1] = "__aenter__"
                        /\ \A j \in (i + 1)..Len(s_ops) : s_ops[j][1] # "__aenter__"][2]

\* the requests made since the scraper was last entered
GetsOfBlock ==
    {i \in 1..Len(s_ops) :
        /\ s_ops[i][1] = "get"
        /\ \E e \in 1..(i - 1) : s_ops[e][1] = "enter"
        /\ \A j \in (i + 1)..Len(s_ops) : s_ops[j][1] # "enter"}

\* C28: a TimetableScraper constructed with a borrowed client never enters or exits
\* that client and makes every request with it; one constructed without a client
\* enters a client of its own on enter, makes its requests with it and exits that same
\* client on exit, also when the body raised, so that after exit no client the scraper
\* entered has an open session.
C28_ClientOwnership ==
    /\ [][(s_pc # "idle" /\ Borrowed) => UNCHANGED <<h_clients, h_sessions>>]_vars
    /\ []((s_pc # "idle" /\ Borrowed) =>
            /\ OpenedByScraper = {}
            /\ \A i \in 1..Len(s_ops) : s_ops[i][1] # "__aexit__"
            /\ \A i \in 1..Len(s_ops) :
                s_ops[i][1] = "get" => s_ops[i][2] = s_self._external_client.val)
    /\ []((s_pc = "entered" /\ ~Borrowed) =>
            /\ s_self._internal_client = PyInt(LastOpened)
            /\ s_self.http_client = PyInt(LastOpened)
            /\ ~IsNone(h_clients[LastOpened]._session)
            /\ ~h_sessions[h_clients[LastOpened]._session.val].closed
            /\ \A i \in GetsOfBlock : s_ops[i][2] = LastOpened /\ ~Raised(s_ops[i][3]))
    /\ []((s_pc \in {"exited", "raised"} /\ ~Borrowed) =>
            /\ s_ops[Len(s_ops)] = <<"__aexit__", LastOpened>>
            /\ \A c \in OpenedByScraper : IsNone(h_clients[c]._session)
            /\ \A k \in 1..Len(h_sessions) :
                ~h_sessions[k].closed =>
                    \E c \in 1..Len(h_clients) :
                        c \notin OpenedByScraper /\ h_clients[c]._session = PyInt(k))

\* a scraper without a client of the caller made a request, its body raised and the
\* session of its own client was closed, the caller's session staying open
C28_Witness ==
    /\ s_pc = "raised"
    /\ ~Borrowed
    /\ Gets = 1
    /\ Len(h_sessions) = 2
    /\ ~h_sessions[1].closed /\ h_sessions[2].closed
    /\ IsNone(h_clients[2]._session)

-----------------------------------------------------------------------------
(* Group classification applied to bounded raw codes and titles *)

CodeAlphabet == {"1", "A", "-", "_", " "}

TitleAlphabet == {"(", ")", "A", "b"}

MaxCodeLen == 5
MaxTitleLen == 4

\* raw codes of the documentation, and codes at the limits of the validations
SampleCodes ==
    {<<"0", "0", "8", "1", "9", "_", "1", "-", "-", "C", "L", ".", "A">>,
     <<"0", "8", "7", "9", "3", "-", "-", "A", "-", "L">>,
     <<"0", "8", "7", "9", "3", "_", "A", "K", "-", "-", "A", "K">>,
     <<"1", "2", "3", "4", "5", "-", "-", "B", "O">>,
     <<"1", "2", "3", "4", "5">>,
     <<"1", "2", "3", "4", "5", "-", "-", "1", "2", "3", "4", "5">>,
     <<"1", "2", "3", "4", "5", "_", "1", "-", "-", "1", "2", "3", "4", "5">>,
     <<"A", "-", "-", "-", "B">>,
     <<"1", "-", "-", "A", "B", "C", "D", "E", "F", "G", "H", "I", "J">>,
     <<"1", "-", "-", "A", "B", "C", "D", "E", "F", "G", "H", "I", "J", "K">>,
     <<"1", "-", "-", "c", "o", "m", "m", "o", "n">>,
     <<"1", "_", "1", "-", "-", ".", ".">>,
     <<"1", "-", "-", " ", "A", " ">>}

SampleTitles ==
    {<<"A", "L", "G", "E", "B", "R", "A">>,
     <<"P", " ", "(", "C", "L", ".", "A", ")">>,
     <<"(", "G", ".", "B", ")">>,
     <<"(", "A", ")", " ", "(", "C", "L", ".", "B", ")">>,
     <<"M", " ", "/", " ", "(", "A", "K", ")">>,
     <<"(", "A", "B", "C", ")">>,
     <<"(", "A", "B", "C", "D", ")">>,
     <<"(", "a", ")">>,
     <<"(", "A", "B", ")", "(", "A", ")">>,
     <<"(", "A", "K", ")", " ", "(", "G", ".", "B", ")">>}

\* (raw code, title) pairs: every short code with the sample titles, and the sample
\* codes with every short title
GroupInputs ==
    (SeqUpTo(CodeAlphabet, MaxCodeLen) \X SampleTitles)
    \cup ((SampleCodes \cup {<<>>}) \X (SeqUpTo(TitleAlphabet, MaxTitleLen) \cup SampleTitles))

\* a raw record with the given raw code and title
GroupRecord(cod, title) ==
    [py |-> "dict", title |-> title, start |-> Ts(1, ""), end |-> Ts(2, ""),
     cod_sdoppiamento |-> cod]

\* a raw record without a raw code
GroupRecordNoCode(title) ==
    [py |-> "dict", title |-> title, start |-> Ts(1, ""), end |-> Ts(2, "")]

InitGroup ==
    /\ ScraperIdle
    /\ DateIdle
    /\ FetchIdle
    /\ CollIdle
    /\ OrchIdle
    /\ p_pc = "call"
    /\ \/ /\ p_fn = "extract_group_id"
          /\ p_args \in GroupInputs
       \/ /\ p_fn = "parse_event"
          /\ p_args \in {<<GroupRecord(a[1], a[2])>> : a \in GroupInputs}
                        \cup {<<GroupRecordNoCode(t)>> :
                                t \in SeqUpTo(TitleAlphabet, MaxTitleLen) \cup SampleTitles}
    /\ p_ret = None

ExtractGroupId ==
    /\ p_pc = "call"
    /\ p_fn = "extract_group_id"
    /\ p_ret' = extract_group_id(p_args[1], p_args[2])
    /\ p_pc' = "returned"
    /\ UNCHANGED <<p_fn, p_args>>
    /\ UNCHANGED <<dateVars, fetchVars, collVars, orchVars, scraperVars>>

\* the decoder applied to one raw record
ParseEvent ==
    /\ p_pc = "call"
    /\ p_fn = "parse_event"
    /\ p_ret' = parse_event(p_args[1])
    /\ p_pc' = "returned"
    /\ UNCHANGED <<p_fn, p_args>>
    /\ UNCHANGED <<dateVars, fetchVars, collVars, orchVars, scraperVars>>

NextGroup == ExtractGroupId \/ ParseEvent

SpecGroup == InitGroup /\ [][NextGroup]_vars

Separator == <<"-", "-">>

\* an ASCII letter or digit
IsAlphanumeric(c) == c \in UpperLetters \/ c \in LowerLetters \/ c \in Digits

\* text without its leading and trailing blanks
Trimmed(text) ==
    LET inner == {i \in 1..Len(text) : text[i] # " "}
    IN  IF inner = {} THEN <<>>
        ELSE SubSeq(text, CHOOSE i \in inner : \A j \in inner : i <= j,
                          CHOOSE i \in inner : \A j \in inner : j <= i)

\* the text after the last place at which the separator occurs in cod
AfterLastOccurrence(cod) ==
    LET places == {i \in 1..Len(cod) : OccursAt(cod, i, Separator)}
        last == CHOOSE i \in places : \A j \in places : j <= i
    IN  SubSeq(cod, last + 2, Len(cod))

\* the number of consecutive dashes of cod that end at index j
DashRun(cod, j) ==
    LET ns == {n \in 0..j : \A m \in (j - n + 1)..j : cod[m] = "-"}
    IN  CHOOSE n \in ns : \A k \in ns : k <= n

\* the text after the last separator found when cod is scanned from the left, each
\* separator starting after the end of the one before: it follows a separator, holds
\* no separator, and the dashes before it pair up
AfterLastScanned(cod) ==
    LET k == CHOOSE k \in 3..(Len(cod) + 1) :
                /\ OccursAt(cod, k - 2, Separator)
                /\ ~str_contains(SubSeq(cod, k, Len(cod)), Separator)
                /\ DashRun(cod, k - 1) % 2 = 0
    IN  SubSeq(cod, k, Len(cod))

\* the part of cod before its first underscore, cod itself when it has none
BeforeUnderscore(cod) ==
    LET places == {i \in 1..Len(cod) : cod[i] = "_"}
    IN  IF places = {} THEN cod
        ELSE SubSeq(cod, 1, (CHOOSE i \in places : \A j \in places : i <= j) - 1)

\* the candidate is no identifier: empty, too long, or without letter and digit
Unusable(suffix) ==
    \/ suffix = <<>>
    \/ Len(suffix) > MaxSuffixLen
    \/ \A i \in 1..Len(suffix) : ~IsAlphanumeric(suffix[i])

\* C11 as stated: for every raw code containing "--", extract_group_id returns the
\* trimmed suffix after the last occurrence of the separator, unless that suffix is
\* empty, longer than 10 characters or without alphanumeric character, when it returns
\* absent without consulting the title; a raw code without the separator and with no
\* matching title yields absent.
C11_SuffixAfterLastOccurrence ==
    (p_fn = "extract_group_id" /\ p_pc = "returned") =>
        LET cod == p_args[1]
            suffix == Trimmed(AfterLastOccurrence(cod))
        IN  /\ str_contains(cod, Separator) =>
                p_ret = IF Unusable(suffix) THEN None ELSE Str(suffix)
            /\ (~str_contains(cod, Separator) /\ IsNone(extract_from_title(p_args[2]))) =>
                IsNone(p_ret)

\* C11, amended: the suffix is the text after the last separator found in a scan from
\* the left for non-overlapping separators ("A---B" gives "-B"), and it is also rejected
\* when it equals the part of the raw code before its first underscore.
C11_SuffixAfterLastScanned ==
    (p_fn = "extract_group_id" /\ p_pc = "returned") =>
        LET cod == p_args[1]
            suffix == Trimmed(AfterLastScanned(cod))
        IN  /\ str_contains(cod, Separator) =>
                p_ret = IF Unusable(suffix) \/ suffix = BeforeUnderscore(cod)
                        THEN None ELSE Str(suffix)
            /\ (~str_contains(cod, Separator) /\ IsNone(extract_from_title(p_args[2]))) =>
                IsNone(p_ret)

\* "00819_1--CL.A" gives "CL.A" whatever the title says
C11_Witness ==
    /\ p_fn = "extract_group_id" /\ p_pc = "returned"
    /\ p_args[1] = <<"0", "0", "8", "1", "9", "_", "1", "-", "-", "C", "L", ".", "A">>
    /\ p_args[2] = <<"(", "G", ".", "B", ")">>
    /\ p_ret = Str(<<"C", "L", ".", "A">>)

\* the module code that precedes the separator, without its underscore part
BaseModuleCode(cod) == BeforeUnderscore(SubSeq(cod, 1, str_find(cod, Separator) - 1))

\* C12: whenever the candidate suffix after the last "--" equals the record's base
\* module code (the module code before the separator, with or without an underscore
\* part), extract_group_id returns absent.
C12_BaseCodeRejected ==
    (/\ p_fn = "extract_group_id" /\ p_pc = "returned"
     /\ str_contains(p_args[1], Separator)
     /\ Trimmed(AfterLastScanned(p_args[1])) = BaseModuleCode(p_args[1]))
    => IsNone(p_ret)

\* the raw code of the event is absent, empty or without separator
NoSeparatorInRecord(event_data) ==
    \/ "cod_sdoppiamento" \notin DOMAIN event_data
    \/ ~str_contains(event_data.cod_sdoppiamento, Separator)

\* C13: for every decoded event whose raw code does not contain the separator,
\* including one whose raw code is absent or empty, the group identifier is the one
\* extracted from the title by the first matching rule, absent only when no rule matches.
C13_TitleFallback ==
    (/\ p_fn = "parse_event" /\ p_pc = "returned"
     /\ NoSeparatorInRecord(p_args[1]))
    => p_ret.group_id = extract_from_title(p_args[1].title)

\* the bracketed shapes of the title rules: "(X)", "(XX)" or "(XXX)", "(CL.X)" and
\* "(G.X)", X an upper-case letter
RuleShape(rule, t) ==
    /\ Len(t) >= 3
    /\ t[1] = "(" /\ t[Len(t)] = ")"
    /\ LET inner == SubSeq(t, 2, Len(t) - 1)
       IN  CASE rule = "single letter" -> Len(inner) = 1 /\ inner[1] \in UpperLetters
             [] rule = "letter code" ->
                    Len(inner) \in {2, 3} /\ \A i \in 1..Len(inner) : inner[i] \in UpperLetters
             [] rule = "dotted class" ->
                    Len(inner) = 4 /\ SubSeq(inner, 1, 3) = <<"C", "L", ".">> /\ inner[4] \in UpperLetters
             [] rule = "dotted group" ->
                    Len(inner) = 3 /\ SubSeq(inner, 1, 2) = <<"G", ".">> /\ inner[3] \in UpperLetters

\* the places of the title at which the rule matches
RulePlaces(rule, title) ==
    {i \in 1..Len(title) : \E j \in i..Len(title) : RuleShape(rule, SubSeq(title, i, j))}

\* the identifier the rules give when tried in the given order: the text between the
\* parentheses of the leftmost match of the first rule that matches somewhere
IdentifierByRules(order, title) ==
    LET ks == {k \in 1..Len(order) : RulePlaces(order[k], title) # {}}
    IN  IF ks = {} THEN None
        ELSE LET k == CHOOSE k \in ks : \A l \in ks : k <= l
                 i == CHOOSE i \in RulePlaces(order[k], title) :
                        \A m \in RulePlaces(order[k], title) : i <= m
                 j == CHOOSE j \in i..Len(title) : RuleShape(order[k], SubSeq(title, i, j))
             IN  Str(SubSeq(title, i + 1, j - 1))

\* C30 as stated: when the title fallback is used the rules are tried in the order
\* parenthesized single letter, parenthesized two/three-letter code, dotted-class
\* notation, location-style code, and the identifier comes from the first rule in that
\* order that matches anywhere in the title.
C30_RuleOrderAsStated ==
    (p_fn = "extract_group_id" /\ p_pc = "returned" /\ ~str_contains(p_args[1], Separator)) =>
        p_ret = IdentifierByRules(<<"single letter", "letter code", "dotted class", "dotted group">>,
                                  p_args[2])

\* C30: when the title fallback is used the rules are tried in the order "(CL.X)",
\* "(X)", "(G.X)", "(XX)" or "(XXX)", and the identifier is the text between the
\* parentheses of the leftmost match of the first rule in that order that matches
\* anywhere in the title: rule order decides, not position in the title.
C30_RuleOrder ==
    (p_fn = "extract_group_id" /\ p_pc = "returned" /\ ~str_contains(p_args[1], Separator)) =>
        p_ret = IdentifierByRules(<<"dotted class", "single letter", "dotted group", "letter code">>,
                                  p_args[2])

\* a title whose leftmost bracket is a two-letter code and whose second is a single
\* letter: the single letter is the identifier
C30_Witness ==
    /\ p_fn = "extract_group_id" /\ p_pc = "returned"
    /\ ~str_contains(p_args[1], Separator)
    /\ p_args[2] = <<"(", "A", "B", ")", "(", "A", ")">>
    /\ p_ret = Str(<<"A">>)

-----------------------------------------------------------------------------
(* Content hash of two payloads *)

\* JSON objects of a payload, as members in wire order: a plain record, the same with
\* its members reversed, with further fields, with instructor and remote link, with
\* another link and zone suffix, with instructor and no link, with another start
PlainMembers == << <<"title", <<"T">>>>, <<"start", Ts(1, "+01:00")>>, <<"end", Ts(2, "+01:00")>> >>

TaughtMembers == << <<"docente", "Rossi">>, <<"cod_modulo", "00819-1">>, <<"periodo", "S1">> >>

HashObjects ==
    {PlainMembers,
     << <<"end", Ts(2, "+01:00")>>, <<"start", Ts(1, "+01:00")>>, <<"title", <<"T">>>> >>,
     PlainMembers \o << <<"note", "room changed">>, <<"cod_sdoppiamento", <<"1", "-", "-", "A">>>> >>,
     PlainMembers \o TaughtMembers \o << <<"teams", "https://teams.example/1">> >>,
     TaughtMembers \o << <<"teams", "https://teams.example/2">>, <<"title", <<"T">>>>,
                         <<"start", Ts(1, "Z")>>, <<"end", Ts(2, "Z")>> >>,
     PlainMembers \o TaughtMembers,
     << <<"title", <<"T">>>>, <<"start", Ts(2, "")>>, <<"end", Ts(3, "")>> >>}

HashBatches == SeqUpTo(HashObjects, MaxRecs)

\* the list json.loads makes of a payload
PayloadOf(batch) == [i \in 1..Len(batch) |-> json_object(batch[i])]

InitHash ==
    /\ ScraperIdle
    /\ DateIdle
    /\ FetchIdle
    /\ CollIdle
    /\ OrchIdle
    /\ p_pc = "call"
    /\ p_fn = "parse_events"
    /\ p_args \in HashBatches \X HashBatches
    /\ p_ret = <<>>

\* parse_events applied to the first payload
ParseEventsFirst ==
    /\ p_pc = "call"
    /\ p_fn = "parse_events"
    /\ p_ret' = <<parse_events(PayloadOf(p_args[1]))>>
    /\ p_pc' = "again"
    /\ UNCHANGED <<p_fn, p_args>>
    /\ UNCHANGED <<dateVars, fetchVars, collVars, orchVars, scraperVars>>

\* parse_events applied to the second payload
ParseEventsSecond ==
    /\ p_pc = "again"
    /\ p_fn = "parse_events"
    /\ p_ret' = Append(p_ret, parse_events(PayloadOf(p_args[2])))
    /\ p_pc' = "returned"
    /\ UNCHANGED <<p_fn, p_args>>
    /\ UNCHANGED <<dateVars, fetchVars, collVars, orchVars, scraperVars>>

NextHash == ParseEventsFirst \/ ParseEventsSecond

SpecHash == InitHash /\ [][NextHash]_vars

\* title, start, end, instructor, module code, teaching period and remote flag of the
\* event decoded from a JSON object
SevenFields(members) ==
    LET e == parse_event(json_object(members))
    IN  <<e.title, e.start, e.end, e.professor, e.module_code, e.teaching_period, e.is_remote>>

AgreeOnSevenFields(a, b) ==
    /\ Len(a) = Len(b)
    /\ \A i \in 1..Len(a) : SevenFields(a[i]) = SevenFields(b[i])

\* C14: the content hash of parse_events is a function of the batch's sequence of
\* (title, start, end, instructor, module code, teaching period, remote flag) tuples
\* only: two batches that agree on them position by position get the same hash,
\* whatever their key order and other fields, and so does the same batch hashed twice.
C14_HashOfSevenFields ==
    (p_fn = "parse_events" /\ p_pc = "returned") =>
        (AgreeOnSevenFields(p_args[1], p_args[2]) => p_ret[1].items[2] = p_ret[2].items[2])

\* two payloads of two objects each, the second with other key order, zone suffix,
\* link, and further fields, and with the same non-empty hash
C14_Witness ==
    /\ p_fn = "parse_events" /\ p_pc = "returned"
    /\ Len(p_args[1]) = 2 /\ Len(p_args[2]) = 2
    /\ \A i \in 1..2 : p_args[1][i] # p_args[2][i]
    /\ \E i \in 1..2 : \E j \in 1..Len(p_args[2][i]) : p_args[2][i][j][1] = "note"
    /\ \E i \in 1..2 : p_args[1][i][1][1] # p_args[2][i][1][1]
    /\ \E i \in 1..2 :
        /\ "teams" \in DOMAIN json_object(p_args[1][i])
        /\ "teams" \in DOMAIN json_object(p_args[2][i])
        /\ json_object(p_args[1][i]).teams # json_object(p_args[2][i]).teams
    /\ AgreeOnSevenFields(p_args[1], p_args[2])
    /\ p_ret[1].items[2] = p_ret[2].items[2]
    /\ p_ret[1].items[2] # Str("")

\* the records of a batch decode to events with pairwise distinct start times
DistinctStarts(batch) ==
    \A i \in 1..Len(batch) : \A j \in 1..Len(batch) :
        i # j => SevenFields(batch[i])[2] # SevenFields(batch[j])[2]

\* C26: parse_events hashes the decoded events in start-time order, so two payloads
\* holding the same records, with distinct start times, in different orders get the
\* same content hash.
C26_HashOverSortedOrder ==
    (p_fn = "parse_events" /\ p_pc = "returned") =>
        ((SameElements(p_args[1], p_args[2]) /\ DistinctStarts(p_args[1])) =>
            p_ret[1].items[2] = p_ret[2].items[2])

-----------------------------------------------------------------------------
(* Filters and grouping applied to bounded event lists *)

MaxEvents == 2

\* raw records whose decoded events differ in group, title, instructor, start and
\* remote flag: group "A" taught in person, no group and no instructor, the group
\* named "common" with an empty instructor, group "B" remote, group "A" remote
FilterRecords ==
    {[py |-> "dict", title |-> <<"A", "b">>, start |-> Ts(1, ""), end |-> Ts(2, ""),
      docente |-> <<"R", "o">>, cod_sdoppiamento |-> <<"1", "-", "-", "A">>],
     [py |-> "dict", title |-> <<"b">>, start |-> Ts(2, ""), end |-> Ts(3, ""),
      teams |-> "https://teams.example/1"],
     [py |-> "dict", title |-> <<"A", "B">>, start |-> Ts(2, ""), end |-> Ts(3, ""),
      docente |-> <<>>, cod_sdoppiamento |-> <<"1", "-", "-", "c", "o", "m", "m", "o", "n">>],
     [py |-> "dict", title |-> <<"a">>, start |-> Ts(1, ""), end |-> Ts(2, ""),
      docente |-> <<"r", "o">>, teams |-> "https://teams.example/2", cod_sdoppiamento |-> <<"1", "-", "-", "B">>],
     [py |-> "dict", title |-> <<"B">>, start |-> Ts(2, ""), end |-> Ts(3, ""),
      teams |-> "https://teams.example/3", cod_sdoppiamento |-> <<"1", "-", "-", "A">>]}

FilterEventLists == SeqUpTo({parse_event(r) : r \in FilterRecords}, MaxEvents)

GroupArgs ==
    {None, Str(<<"A">>), PyList(<<Str(<<"A">>), Str(<<"B">>)>>), PyList(<<None>>)}

SubjectArgs == {None, Str(<<"a">>), Str(<<"A", "B">>)}

ProfessorArgs == {None, Str(<<"R", "O">>)}

DateArgs == {None} \cup {Instant(t) : t \in 1..MaxTime}

\* arguments of filter_events
FilterArgs(events, group_id, subject, professor, start_date, end_date, only_remote, only_in_person) ==
    [events |-> events, group_id |-> group_id, subject |-> subject, professor |-> professor,
     start_date |-> start_date, end_date |-> end_date,
     only_remote |-> only_remote, only_in_person |-> only_in_person]

InitFilter ==
    /\ ScraperIdle
    /\ DateIdle
    /\ FetchIdle
    /\ CollIdle
    /\ OrchIdle
    /\ p_pc = "call"
    /\ \/ /\ p_fn = "filter_events"
          /\ \E events \in FilterEventLists, group_id \in GroupArgs, subject \in SubjectArgs,
                professor \in ProfessorArgs, start_date \in DateArgs, end_date \in DateArgs,
                only_remote \in BOOLEAN, only_in_person \in BOOLEAN :
                p_args = FilterArgs(events, group_id, subject, professor, start_date, end_date,
                                    only_remote, only_in_person)
       \/ /\ p_fn = "filter_events twice"
          /\ \E events \in FilterEventLists, group_id \in GroupArgs \ {None},
                start_date \in DateArgs, end_date \in DateArgs :
                p_args = FilterArgs(events, group_id, None, None, start_date, end_date, FALSE, FALSE)
       \/ /\ p_fn \in {"group_events_by_group", "split_by_group"}
          /\ \E events \in FilterEventLists :
                p_args = FilterArgs(events, None, None, None, None, None, FALSE, FALSE)
    /\ p_ret = <<>>

FilterFrame ==
    /\ UNCHANGED <<p_fn, p_args>>
    /\ UNCHANGED <<dateVars, fetchVars, collVars, orchVars, scraperVars>>

FilterEvents ==
    /\ p_pc = "call"
    /\ p_fn = "filter_events"
    /\ p_ret' = filter_events(p_args.events, p_args.group_id, p_args.subject, p_args.professor,
                              p_args.start_date, p_args.end_date,
                              p_args.only_remote, p_args.only_in_person)
    /\ p_pc' = "returned"
    /\ FilterFrame

\* filter_events(filter_events(events, group_id=g), start_date=s, end_date=e)
FilterGroupThenDates ==
    /\ p_pc = "call"
    /\ p_fn = "filter_events twice"
    /\ p_ret' = <<filter_events(
                    filter_events(p_args.events, p_args.group_id, None, None, None, None, FALSE, FALSE),
                    None, None, None, p_args.start_date, p_args.end_date, FALSE, FALSE)>>
    /\ p_pc' = "dates first"
    /\ FilterFrame

\* filter_events(filter_events(events, start_date=s, end_date=e), group_id=g)
FilterDatesThenGroup ==
    /\ p_pc = "dates first"
    /\ p_ret' = Append(p_ret, filter_events(
                    filter_events(p_args.events, None, None, None, p_args.start_date, p_args.end_date,
                                  FALSE, FALSE),
                    p_args.group_id, None, None, None, None, FALSE, FALSE))
    /\ p_pc' = "one pass"
    /\ FilterFrame

\* filter_events(events, group_id=g, start_date=s, end_date=e)
FilterGroupAndDates ==
    /\ p_pc = "one pass"
    /\ p_ret' = Append(p_ret, filter_events(p_args.events, p_args.group_id, None, None,
                                            p_args.start_date, p_args.end_date, FALSE, FALSE))
    /\ p_pc' = "returned"
    /\ FilterFrame

GroupEventsByGroup ==
    /\ p_pc = "call"
    /\ p_fn = "group_events_by_group"
    /\ p_ret' = group_events_by_group(p_args.events)
    /\ p_pc' = "returned"
    /\ FilterFrame

SplitByGroup ==
    /\ p_pc = "call"
    /\ p_fn = "split_by_group"
    /\ p_ret' = split_by_group(p_args.events)
    /\ p_pc' = "returned"
    /\ FilterFrame

NextFilter ==
    \/ FilterEvents
    \/ FilterGroupThenDates
    \/ FilterDatesThenGroup
    \/ FilterGroupAndDates
    \/ GroupEventsByGroup
    \/ SplitByGroup

SpecFilter == InitFilter /\ [][NextFilter]_vars

\* the same letter but for its case, or the same character
SameIgnoringCase(a, b) ==
    \/ a = b
    \/ a \in UpperLetters /\ LowerOf[a] = b
    \/ b \in UpperLetters /\ LowerOf[b] = a

ContainsIgnoringCase(text, sub) ==
    \E i \in 1..(Len(text) + 1) :
        /\ i + Len(sub) - 1 <= Len(text)
        /\ \A j \in 1..Len(sub) : SameIgnoringCase(text[i + j - 1], sub[j])

\* event e satisfies every predicate supplied in args
Keeps(args, e) ==
    /\ args.group_id.py = "str" => e.group_id = args.group_id
    /\ args.group_id.py = "list" => \E i \in 1..PyLen(args.group_id) : args.group_id.items[i] = e.group_id
    /\ ~IsNone(args.subject) => ContainsIgnoringCase(e.title, args.subject.val)
    /\ ~IsNone(args.professor) =>
        /\ ~IsNone(e.professor)
        /\ e.professor.val # <<>>
        /\ ContainsIgnoringCase(e.professor.val, args.professor.val)
    /\ ~IsNone(args.start_date) => e.start >= args.start_date.wall
    /\ ~IsNone(args.end_date) => e.start <= args.end_date.wall
    /\ args.only_remote => e.is_remote
    /\ args.only_in_person => ~e.is_remote

\* C15: filter_events returns exactly the events of the input, in their original
\* relative order, that satisfy every supplied predicate at once (group equal to the
\* given one or member of the given list, title and instructor containing the given
\* text whatever the case, start within the inclusive bounds, remote or in person);
\* an omitted predicate excludes nothing.
C15_FilterIsConjunction ==
    (p_fn = "filter_events" /\ p_pc = "returned") =>
        p_ret = SelectSeq(p_args.events, LAMBDA e : Keeps(p_args, e))

\* two events pass through a filter with group, subject, instructor and both date
\* bounds given, one is kept
C15_Witness ==
    /\ p_fn = "filter_events" /\ p_pc = "returned"
    /\ Len(p_args.events) = 2 /\ Len(p_ret) = 1
    /\ p_args.group_id.py = "list"
    /\ ~IsNone(p_args.subject) /\ ~IsNone(p_args.professor)
    /\ ~IsNone(p_args.start_date) /\ ~IsNone(p_args.end_date)
    /\ p_args.events[1].title # p_args.subject.val
    /\ p_ret[1] = p_args.events[1]

\* C16: for every event list, group g and date bounds (s, e), filtering by group and
\* then by dates, by dates and then by group, and by both in one pass give the same list.
C16_FilterComposition ==
    (p_fn = "filter_events twice" /\ p_pc = "returned") =>
        /\ p_ret[1] = p_ret[2]
        /\ p_ret[2] = p_ret[3]

\* of two events one is dropped by the group and the other by the dates
C16_Witness ==
    /\ p_fn = "filter_events twice" /\ p_pc = "returned"
    /\ Len(p_args.events) = 2
    /\ ~IsNone(p_args.start_date) /\ ~IsNone(p_args.end_date)
    /\ Len(filter_events(p_args.events, p_args.group_id, None, None, None, None, FALSE, FALSE)) = 1
    /\ Len(filter_events(p_args.events, None, None, None, p_args.start_date, p_args.end_date,
                         FALSE, FALSE)) = 1
    /\ p_ret = <<<<>>, <<>>, <<>>>>

\* the number of times e occurs in the buckets of grouped
RECURSIVE CountInBuckets(_, _)
CountInBuckets(grouped, e) ==
    IF grouped = <<>> THEN 0
    ELSE Count(grouped[1].val, e) + CountInBuckets(Tail(grouped), e)

\* C17: group_events_by_group (and Timetable.split_by_group) partitions its input:
\* every event is in exactly one bucket, an event with an identifier in the bucket keyed
\* by it, the "common" bucket holds exactly the events without identifier, and no
\* bucket is empty.
C17_GroupingPartitions ==
    (p_fn \in {"group_events_by_group", "split_by_group"} /\ p_pc = "returned") =>
        LET events == p_args.events
        IN  /\ \A i \in 1..Len(events) : CountInBuckets(p_ret, events[i]) = Count(events, events[i])
            /\ \A i \in 1..Len(p_ret) : \A j \in 1..Len(p_ret) : p_ret[i].key = p_ret[j].key => i = j
            /\ \A i \in 1..Len(p_ret) : p_ret[i].val # <<>>
            /\ \A i \in 1..Len(events) :
                ~IsNone(events[i].group_id) =>
                    /\ DictHas(p_ret, events[i].group_id.val)
                    /\ Count(DictGet(p_ret, events[i].group_id.val), events[i]) = Count(events, events[i])
            /\ \A i \in 1..Len(events) :
                IsNone(events[i].group_id) =>
                    /\ DictHas(p_ret, common)
                    /\ Count(DictGet(p_ret, common), events[i]) = Count(events, events[i])
            /\ DictHas(p_ret, common) =>
                \A j \in 1..Len(DictGet(p_ret, common)) : IsNone(DictGet(p_ret, common)[j].group_id)

-----------------------------------------------------------------------------
(* validate_response applied to bounded payload shapes *)

MaxItems == 2

\* a JSON object with the given keys
ObjectWithKeys(keys) == [k \in keys \cup {"py"} |-> IF k = "py" THEN "dict" ELSE "v"]

\* elements a payload array may hold: objects with any of the required fields and
\* possibly another one, numbers, booleans, null, strings and arrays of strings
ValidateItems ==
    {ObjectWithKeys(keys \cup extra) : keys \in SUBSET {"title", "start", "end"},
                                       extra \in {{}, {"note"}}}
    \cup {[py |-> "int"], [py |-> "float"], [py |-> "bool"], None}
    \cup {Str(<<>>), Str(FieldText.title),
          Str(FieldText.title \o <<" ">> \o FieldText.start \o <<" ">> \o FieldText.end)}
    \cup {PyList(<<>>),
          PyList(<<Str(FieldText.title), Str(FieldText.start)>>),
          PyList(<<Str(FieldText.title), Str(FieldText.start), Str(FieldText.end)>>)}

ValidatePayloads ==
    {ObjectWithKeys({"title", "start", "end"}), [py |-> "int"], [py |-> "bool"], None,
     Str(FieldText.title)}
    \cup {PyList(items) : items \in SeqUpTo(ValidateItems, MaxItems)}

InitValidate ==
    /\ ScraperIdle
    /\ DateIdle
    /\ FetchIdle
    /\ CollIdle
    /\ OrchIdle
    /\ p_pc = "call"
    /\ p_fn = "validate_response"
    /\ p_args \in {<<payload>> : payload \in ValidatePayloads}
    /\ p_ret = None

\* TimetableParser.validate_response(response_data): it returns a boolean or raises
ValidateResponse ==
    /\ p_pc = "call"
    /\ p_fn = "validate_response"
    /\ IF validate_response_raises(p_args[1])
       THEN p_pc' = "raised" /\ p_ret' = Raise("TypeError")
       ELSE p_pc' = "returned" /\ p_ret' = validate_response(p_args[1])
    /\ UNCHANGED <<p_fn, p_args>>
    /\ UNCHANGED <<dateVars, fetchVars, collVars, orchVars, scraperVars>>

NextValidate == ValidateResponse

SpecValidate == InitValidate /\ [][NextValidate]_vars

\* the payload is an array that is empty or whose first element is a record carrying
\* title, start and end
ValidShape(payload) ==
    /\ payload.py = "list"
    /\ \/ payload.items = <<>>
       \/ /\ payload.items[1].py = "dict"
          /\ {"title", "start", "end"} \subseteq DOMAIN payload.items[1]

\* C18: validate_response returns true exactly when the payload is an array that is
\* empty or whose first element is a record carrying title, start and end; for every
\* other shape it returns false, neither true nor an exception.
C18_ValidateResponse ==
    (p_fn = "validate_response" /\ p_pc # "call") =>
        /\ p_pc = "returned"
        /\ p_ret = ValidShape(p_args[1])

-----------------------------------------------------------------------------
(* Date-range resolver applied to bounded inputs *)

InitDate ==
    /\ ScraperIdle
    /\ CallIdle
    /\ d_pc = "call"
    /\ d_ref \in RefDates \cup {None}
    /\ d_ext \in BOOLEAN
    /\ d_now \in NowDates
    /\ d_out = <<>>
    /\ FetchIdle
    /\ CollIdle
    /\ OrchIdle

ResolveRange ==
    /\ d_pc = "call"
    /\ d_out' = get_academic_year_range(d_ref, d_ext, d_now)
    /\ d_pc' = "returned"
    /\ UNCHANGED <<d_ref, d_ext, d_now>>
    /\ UNCHANGED <<fetchVars, collVars, orchVars, callVars, scraperVars>>

NextDate == ResolveRange

SpecDate == InitDate /\ [][NextDate]_vars

\* term-start year of a reference date: its own year from September on, else the year before
TermStartYear(ref) == IF ref.month >= 9 THEN ref.year ELSE ref.year - 1

\* C9: for every reference date (y, m) get_academic_year_range returns September 1 of S
\* and July 31 23:59:59 of S+1, with S = y when m >= 9 and S = y-1 otherwise; widened,
\* September 1 of S-1 and July 31 23:59:59 of S+2. An absent reference date stands for
\* the current date.
C9_AcademicYearRange ==
    d_pc = "returned" =>
        LET ref == IF IsNone(d_ref) THEN d_now ELSE d_ref
            S == TermStartYear(ref)
        IN  /\ ~d_ext => d_out = <<datetime(S, 9, 1, 0, 0, 0), datetime(S + 1, 7, 31, 23, 59, 59)>>
            /\ d_ext => d_out = <<datetime(S - 1, 9, 1, 0, 0, 0), datetime(S + 2, 7, 31, 23, 59, 59)>>

\* the example of the specification: 2026-02-15 resolves to 2025-09-01 .. 2026-07-31T23:59:59
C9_Witness ==
    /\ d_pc = "returned"
    /\ ~IsNone(d_ref)
    /\ d_ref.year = 2026 /\ d_ref.month = 2 /\ d_ref.day = 15
    /\ ~d_ext
    /\ d_out = <<datetime(2025, 9, 1, 0, 0, 0), datetime(2026, 7, 31, 23, 59, 59)>>

====
